---- MODULE Spec2Model ----
(***************************************************************************)
(* Provider dispatch and execution engine of agentevo.                     *)
(*                                                                         *)
(* The module models CodexProvider.invoke (providers/codex.ts) together    *)
(* with the process runner defaultCodexRunner, VSCodeProvider.invoke and   *)
(* invokeBatch (providers/vscode.ts), and the functions they are built     *)
(* from, applied on their own.  Every await of the source is a point where *)
(* the call is suspended; one action is the code that runs between two     *)
(* such points (a continuation, an event handler or a timer callback).     *)
(*                                                                         *)
(* A call occupies one slot of Calls from invoke until it settles; a slot  *)
(* is reused by later calls.  Two slots give overlapping calls on the one  *)
(* CodexProvider instance whose memoized environment check they share.     *)
(*                                                                         *)
(* What the file system and the child process answer (mkdtemp, copyFile,   *)
(* writeFile, rm, spawn, the exit code and the captured output) is an      *)
(* input of the action that receives the answer.                           *)
(***************************************************************************)
EXTENDS Integers, FiniteSets, Sequences, TLC

VARIABLES
    env,               \* process.env / file system facts read by validateEnvironment
    environmentCheck,  \* CodexProvider.environmentCheck: the memoized promise
    validating,        \* where the running validateEnvironment is suspended
    resolvedExecutable,\* CodexProvider.resolvedExecutable is set
    validationRuns,    \* number of times validateEnvironment was started
    timeoutMs,         \* CodexResolvedConfig.timeoutMs (0: not configured)
    dirs,              \* workspace directories that exist under tmpdir()
    pc,                \* per call: the await the call is suspended at
    prov,              \* per call: the provider the call was made on
    sig,               \* per call: request.signal
    ws,                \* per call: workspaceRoot (0: none)
    run,               \* per call: the state of defaultCodexRunner's closure
    tryOut,            \* per call: the completion of the try block, held by finally
    outcome,           \* per call: what the promise returned by invoke settled with
    cleanups,          \* per call: number of rm calls on its workspace
    runnerCalls,       \* per call: number of calls of this.runCodex
    applied,           \* the function applied on its own, its arguments and result
    batch              \* the VSCodeProvider.invokeBatch call

vars == <<env, environmentCheck, validating, resolvedExecutable, validationRuns,
          timeoutMs, dirs, pc, prov, sig, ws, run, tryOut, outcome, cleanups,
          runnerCalls, applied, batch>>

\* What the invoke calls leave alone.
aside == <<applied, batch>>

\* What the invoke calls read and write.
programVars == <<env, environmentCheck, validating, resolvedExecutable, validationRuns,
                 timeoutMs, dirs, pc, prov, sig, ws, run, tryOut, outcome, cleanups,
                 runnerCalls>>

----------------------------------------------------------------------------
(* Bounds *)

\* Number of directory names mkdtemp can choose from.
MaxDirs == 2

\* Cap of the counters validationRuns, cleanups and runnerCalls.
MaxCount == 3

Calls == {"a", "b"}

DirNames == 1..MaxDirs

\* config.timeoutMs values: not configured (0), and a bound that is not a
\* whole number of seconds.
TimeoutChoices == {0, 1500}

\* Captured standard outputs: blank, not JSON, a JSON document without
\* assistant text, a JSON document with assistant text.
Stdouts == {<<" ">>, <<"log">>, <<"{", "}">>, <<"{", "output", ":", "hi", "}", "\n">>}

\* Captured standard errors: empty, and a line of text.
Stderrs == {<<>>, <<"oops", "\n">>}

Signals == {"none", "clear", "aborted"}

Inc(n) == IF n < MaxCount THEN n + 1 ELSE n

\* Longest captured stream a function is applied to on its own.
MaxTextLen == 3

\* Longest attachment list of a request.
MaxAttachments == 3

\* All texts of at most n characters of alphabet.
Texts(alphabet, n) == UNION {[1..k -> alphabet] : k \in 0..n}

----------------------------------------------------------------------------
(* Completions of a call *)

Completion(k, c, d) == [kind |-> k, code |-> c, detail |-> d]

NoCompletion == Completion("none", 0, <<>>)

\* A rejection of kind k; d names the message among those of its kind.
Failure(k, d) == Completion(k, 0, IF d = "" THEN <<>> ELSE <<d>>)

\* The closure of defaultCodexRunner: the child, the promise it returned, the
\* timer handle (armed or not), the abort listener ("none": not installed or
\* removed, "installed", "fired": it ran, once) and the timedOut flag.  killed
\* records that SIGTERM was sent to the running child.
NoRun == [child |-> "none", promise |-> "none", timer |-> FALSE,
          listener |-> "none", timedOut |-> FALSE, killed |-> FALSE]

\* CodexRunResult
RunResult(out, err, code, flag) ==
    [stdout |-> out, stderr |-> err, exitCode |-> code, timedOut |-> flag]

IdlePcs == {"idle", "settled"}


----------------------------------------------------------------------------
(* Text and JSON.                                                          *)
(* A text is a sequence of tokens.  A token is one character that matters  *)
(* to the code (white space, a brace, a bracket, a colon, a comma), a bare *)
(* word that is not JSON, the word null, or a whole quoted string literal, *)
(* written without its quotes; the literal "" is the empty string.         *)

WhiteSpace == {" ", "\n"}

Punctuation == {"{", "}", "[", "]", ":", ","}

\* Words that are no JSON value: log noise.
BareWords == {"log"}

IsLiteral(tok) == tok \notin WhiteSpace \cup Punctuation \cup BareWords \cup {"null"}

RECURSIVE trimStart(_)
\* String.prototype.trimStart
trimStart(s) ==
    IF s # <<>> /\ Head(s) \in WhiteSpace THEN trimStart(Tail(s)) ELSE s

RECURSIVE trimEnd(_)
\* String.prototype.trimEnd
trimEnd(s) ==
    IF s # <<>> /\ s[Len(s)] \in WhiteSpace
    THEN trimEnd(SubSeq(s, 1, Len(s) - 1))
    ELSE s

\* String.prototype.trim
trim(s) == trimEnd(trimStart(s))

\* String.prototype.lastIndexOf for a one-character needle; positions count
\* from 1, and 0 says the character does not occur (JavaScript: -1).
lastIndexOf(s, ch) ==
    LET at == {i \in 1..Len(s) : s[i] = ch}
    IN  IF at = {} THEN 0 ELSE CHOOSE i \in at : \A j \in at : j <= i

\* String.prototype.slice(from) with from counted from 1.
slice(s, from) == SubSeq(s, from, Len(s))

\* JSON values: a string, null, an array of values, an object as the list of
\* its members in source order, and JavaScript's undefined.
Str(x) == [t |-> "str", s |-> x, m |-> <<>>]

Null == [t |-> "null", s |-> "", m |-> <<>>]

Arr(elems) == [t |-> "arr", s |-> "", m |-> elems]

Obj(members) == [t |-> "obj", s |-> "", m |-> members]

Undefined == [t |-> "undefined", s |-> "", m |-> <<>>]

Member(key, val) == [k |-> key, v |-> val]

\* The result of a parsing step: the value read and the position after it.
Parsed(val, nxt) == [ok |-> TRUE, value |-> val, next |-> nxt]

NotParsed == [ok |-> FALSE, value |-> Undefined, next |-> 0]

RECURSIVE SkipWhiteSpace(_, _)
SkipWhiteSpace(s, i) ==
    IF i <= Len(s) /\ s[i] \in WhiteSpace THEN SkipWhiteSpace(s, i + 1) ELSE i

RECURSIVE ParseValue(_, _)
RECURSIVE ParseMembers(_, _, _, _)
RECURSIVE ParseElements(_, _, _, _)

\* The members of an object from position i, which follows the opening brace
\* (first) or a comma; acc holds the members read so far.
ParseMembers(s, i, acc, first) ==
    IF i > Len(s) THEN NotParsed
    ELSE IF s[i] = "}" THEN (IF first THEN Parsed(Obj(acc), i + 1) ELSE NotParsed)
    ELSE IF ~IsLiteral(s[i]) THEN NotParsed
    ELSE LET c == SkipWhiteSpace(s, i + 1)
         IN  IF c > Len(s) \/ s[c] # ":" THEN NotParsed
             ELSE LET v == ParseValue(s, c + 1)
                  IN  IF ~v.ok THEN NotParsed
                      ELSE LET n == SkipWhiteSpace(s, v.next)
                               acc2 == Append(acc, Member(s[i], v.value))
                           IN  IF n > Len(s) THEN NotParsed
                               ELSE IF s[n] = ","
                               THEN ParseMembers(s, SkipWhiteSpace(s, n + 1), acc2, FALSE)
                               ELSE IF s[n] = "}" THEN Parsed(Obj(acc2), n + 1)
                               ELSE NotParsed

\* The elements of an array from position i, which follows the opening bracket
\* (first) or a comma.
ParseElements(s, i, acc, first) ==
    IF i > Len(s) THEN NotParsed
    ELSE IF s[i] = "]" /\ first THEN Parsed(Arr(acc), i + 1)
    ELSE LET v == ParseValue(s, i)
         IN  IF ~v.ok THEN NotParsed
             ELSE LET n == SkipWhiteSpace(s, v.next)
                      acc2 == Append(acc, v.value)
                  IN  IF n > Len(s) THEN NotParsed
                      ELSE IF s[n] = ","
                      THEN ParseElements(s, SkipWhiteSpace(s, n + 1), acc2, FALSE)
                      ELSE IF s[n] = "]" THEN Parsed(Arr(acc2), n + 1)
                      ELSE NotParsed

\* One JSON value from position i, after optional white space.
ParseValue(s, i) ==
    LET j == SkipWhiteSpace(s, i)
    IN  IF j > Len(s) THEN NotParsed
        ELSE IF s[j] = "{" THEN ParseMembers(s, SkipWhiteSpace(s, j + 1), <<>>, TRUE)
        ELSE IF s[j] = "[" THEN ParseElements(s, SkipWhiteSpace(s, j + 1), <<>>, TRUE)
        ELSE IF s[j] = "null" THEN Parsed(Null, j + 1)
        ELSE IF IsLiteral(s[j]) THEN Parsed(Str(s[j]), j + 1)
        ELSE NotParsed

\* JSON.parse: one value, white space around it, and nothing else; a text that
\* is not that makes JSON.parse throw (ok is FALSE).
JSONparse(s) ==
    LET v == ParseValue(s, 1)
    IN  IF v.ok /\ SkipWhiteSpace(s, v.next) = Len(s) + 1 THEN v ELSE NotParsed

\* The value of property key of a value (undefined when val is no object or
\* has no such member; of two members with one key the later one counts).
Get(val, key) ==
    LET at == {i \in 1..Len(val.m) : val.m[i].k = key}
    IN  IF val.t # "obj" \/ at = {} THEN Undefined
        ELSE val.m[CHOOSE i \in at : \A j \in at : j <= i].v

\* The characters of a string value, as a text.
TextOf(literal) == IF literal = "" THEN <<>> ELSE <<literal>>

\* A JavaScript string | undefined.
SomeText(txt) == [def |-> TRUE, text |-> txt]

NoText == [def |-> FALSE, text |-> <<>>]

\* Mutant of Truthy: a string that is defined, empty or not.
TruthyWhenDefined(ft) == ft.def

\* if (flattened): a string that is defined and not empty.
Truthy(ft) == ft.def /\ ft.text # <<>>

\* The separator flattenContent joins the parts of an array with.
PartSeparator == <<" ", "\n">>

RECURSIVE Join(_)
\* Array.prototype.join(" \n") on a list of texts.
Join(parts) ==
    IF Len(parts) = 0 THEN <<>>
    ELSE IF Len(parts) = 1 THEN parts[1]
    ELSE parts[1] \o PartSeparator \o Join(Tail(parts))

\* The map callback of flattenContent, for one segment of an array.
SegmentText(segment) ==
    IF segment.t = "str" THEN SomeText(TextOf(segment.s))
    ELSE IF segment.t = "obj" /\ Get(segment, "text").t = "str"
    THEN SomeText(TextOf(Get(segment, "text").s))
    ELSE NoText

RECURSIVE KeptParts(_)
\* The map and the filter of flattenContent: the texts of the segments that
\* are strings of positive length, in order.
KeptParts(segments) ==
    IF segments = <<>> THEN <<>>
    ELSE LET part == SegmentText(Head(segments))
         IN  (IF Truthy(part) THEN <<part.text>> ELSE <<>>) \o KeptParts(Tail(segments))

flattenContent(value) ==
    IF value.t = "str" THEN SomeText(TextOf(value.s))
    ELSE IF value.t = "arr"
    THEN LET parts == KeptParts(value.m)
         IN  IF Len(parts) > 0 THEN SomeText(Join(parts)) ELSE NoText
    ELSE IF value.t = "obj" /\ Get(value, "text").t # "undefined"
    THEN (IF Get(value, "text").t = "str"
          THEN SomeText(TextOf(Get(value, "text").s))
          ELSE NoText)
    ELSE NoText

\* value && typeof value === "object": objects and arrays, not null.
IsObject(value) == value.t \in {"obj", "arr"}

RECURSIVE ScanMessages(_, _)
\* The loop of extractAssistantText over messages, from index down to 1: the
\* text of the last entry with role "assistant" whose content flattens to a
\* non-empty string.
ScanMessages(messages, index) ==
    IF index < 1 THEN NoText
    ELSE LET entry == messages[index]
         IN  IF ~IsObject(entry) THEN ScanMessages(messages, index - 1)
             ELSE IF Get(entry, "role") # Str("assistant")
             THEN ScanMessages(messages, index - 1)
             ELSE LET flattened == flattenContent(Get(entry, "content"))
                  IN  IF Truthy(flattened) THEN flattened
                      ELSE ScanMessages(messages, index - 1)

\* extractAssistantText with the top-level output tried before
\* response.content.
extractAssistantTextOutputFirst(parsed) ==
    IF ~IsObject(parsed) THEN NoText
    ELSE LET messages == Get(parsed, "messages")
             fromMessages == IF messages.t = "arr"
                             THEN ScanMessages(messages.m, Len(messages.m))
                             ELSE NoText
             response == Get(parsed, "response")
             fromResponse == IF IsObject(response)
                             THEN flattenContent(Get(response, "content"))
                             ELSE NoText
             fromOutput == flattenContent(Get(parsed, "output"))
         IN  IF Truthy(fromMessages) THEN fromMessages
             ELSE IF Truthy(fromOutput) THEN fromOutput
             ELSE IF Truthy(fromResponse) THEN fromResponse
             ELSE NoText

\* extractAssistantText: the text returned, or NoText when it throws the
\* missing-assistant-message error.
extractAssistantText(parsed) ==
    IF ~IsObject(parsed) THEN NoText
    ELSE LET messages == Get(parsed, "messages")
             fromMessages == IF messages.t = "arr"
                             THEN ScanMessages(messages.m, Len(messages.m))
                             ELSE NoText
             response == Get(parsed, "response")
             fromResponse == IF IsObject(response)
                             THEN flattenContent(Get(response, "content"))
                             ELSE NoText
             fromOutput == flattenContent(Get(parsed, "output"))
         IN  IF Truthy(fromMessages) THEN fromMessages
             ELSE IF Truthy(fromResponse) THEN fromResponse
             ELSE IF Truthy(fromOutput) THEN fromOutput
             ELSE NoText

\* Number of characters of the output that the invalid-JSON error quotes.
PreviewLength == 200

\* Mutant of Preview: the whole text is quoted.
PreviewWhole(trimmed) == trimmed

\* The preview of the invalid-JSON error: the first PreviewLength characters
\* and an ellipsis when the text is longer.
Preview(trimmed) ==
    IF Len(trimmed) > PreviewLength
    THEN SubSeq(trimmed, 1, PreviewLength) \o <<"...">>
    ELSE trimmed

\* parseCodexJson: the value parsed (error is ""), or the error thrown.
parseCodexJson(output) ==
    LET trimmed == trim(output)
        direct == JSONparse(trimmed)
        lastBrace == lastIndexOf(trimmed, "{")
        candidate == JSONparse(slice(trimmed, lastBrace))
    IN  IF Len(trimmed) = 0
        THEN [ok |-> FALSE, value |-> Undefined, error |-> "noOutput", preview |-> <<>>]
        ELSE IF direct.ok
        THEN [ok |-> TRUE, value |-> direct.value, error |-> "", preview |-> <<>>]
        ELSE IF lastBrace >= 1 /\ candidate.ok
        THEN [ok |-> TRUE, value |-> candidate.value, error |-> "", preview |-> <<>>]
        ELSE [ok |-> FALSE, value |-> Undefined, error |-> "invalidJson",
              preview |-> Preview(trimmed)]

----------------------------------------------------------------------------
(* Pure helpers of codex.ts *)

\* Math.ceil(timeoutMs / 1000) for a positive integer timeoutMs.
CeilSeconds(ms) == (ms + 999) \div 1000

\* formatTimeoutSuffix: the number of seconds the message names; 0 stands for
\* the empty suffix (timeoutMs absent, zero or negative).
formatTimeoutSuffix(ms) == IF ms <= 0 THEN 0 ELSE CeilSeconds(ms)

\* Mutant of pickDetail: the standard output is preferred.
pickDetailStdoutFirst(stderr, stdout) ==
    LET errorText == trim(stderr)
        stdoutText == trim(stdout)
    IN  IF Len(stdoutText) > 0 THEN SomeText(stdoutText)
        ELSE IF Len(errorText) > 0 THEN SomeText(errorText)
        ELSE NoText

\* pickDetail: the trimmed standard error if it is not empty, else the
\* trimmed standard output if it is not empty, else undefined.
pickDetail(stderr, stdout) ==
    LET errorText == trim(stderr)
        stdoutText == trim(stdout)
    IN  IF Len(errorText) > 0 THEN SomeText(errorText)
        ELSE IF Len(stdoutText) > 0 THEN SomeText(stdoutText)
        ELSE NoText

\* The error thrown for a non-zero exit code: the code and, when pickDetail
\* gives one, the detail.
ExitFailure(r) ==
    LET detail == pickDetail(r.stderr, r.stdout)
    IN  Completion("exit", r.exitCode, IF Truthy(detail) THEN detail.text ELSE <<>>)

\* parseCodexJson followed by extractAssistantText: the response returned or
\* the error thrown.
ExtractCompletion(stdout) ==
    LET parsed == parseCodexJson(stdout)
        assistantText == extractAssistantText(parsed.value)
    IN  IF ~parsed.ok THEN Completion(parsed.error, 0, parsed.preview)
        ELSE IF assistantText.def THEN Completion("response", 0, assistantText.text)
        ELSE Failure("noAssistantMessage", "")

\* Mutant of ResultCompletion: the exit code is looked at before the flag.
ResultCompletionExitFirst(r) ==
    IF r.exitCode # 0
    THEN ExitFailure(r)
    ELSE IF r.timedOut
    THEN Completion("timeout", formatTimeoutSuffix(timeoutMs), <<>>)
    ELSE ExtractCompletion(r.stdout)

\* The part of invoke's try block that follows a resolved runner promise.
ResultCompletion(r) ==
    IF r.timedOut
    THEN Completion("timeout", formatTimeoutSuffix(timeoutMs), <<>>)
    ELSE IF r.exitCode # 0
    THEN ExitFailure(r)
    ELSE ExtractCompletion(r.stdout)

\* config.executable, which the not-found error names.
ConfigExecutable == "codex"

\* An error object: its code ("": it has none) and its message.
ErrorOf(code, message) == [code |-> code, message |-> message]

\* The error of the error event of a child that could not be spawned.
SpawnError(code) == ErrorOf(code, "spawn")

\* invoke rejects with the very error the runner rejected with.
Rethrown(error) == Completion("runnerError", 0, <<error.code, error.message>>)

\* Mutant of ExecuteFailure: every rejection of the runner is rewritten.
ExecuteFailureRewritingAll(error) == Failure("executableNotFound", ConfigExecutable)

\* The catch block of executeCodex: an ENOENT rejection of the runner is
\* rewritten into the error that names config.executable, every other
\* rejection is rethrown.
ExecuteFailure(error) ==
    IF error.code = "ENOENT"
    THEN Failure("executableNotFound", ConfigExecutable)
    ELSE Rethrown(error)

\* Mutant of CleanupCompletion: the rejection of rm is not caught.
CleanupCompletionRaising(comp, rmOk) == IF rmOk THEN comp ELSE Failure("rm", "")

\* cleanupWorkspace never throws: the completion of the try block stands
\* whether rm resolved or rejected.
CleanupCompletion(comp, rmOk) == comp

\* child.kill("SIGTERM"): a request to terminate, delivered only to a child
\* that is running.
Kill(r) == [r EXCEPT !.killed = (r.killed \/ r.child = "running")]

\* Mutant of onAbort: the abort handler marks the run as timed out.
onAbortFlagging(r) == [Kill(r) EXCEPT !.timedOut = TRUE]

\* onAbort: requests termination and nothing else.
onAbort(r) == Kill(r)

\* Mutant of RunnerCleanup: the abort listener is left installed.
RunnerCleanupKeepingListener(r) == [r EXCEPT !.timer = FALSE]

\* cleanup() of the runner: clearTimeout and removeEventListener.
RunnerCleanup(r) ==
    [r EXCEPT !.timer = FALSE,
              !.listener = IF r.listener = "installed" THEN "none" ELSE r.listener]

\* Whether the runner arms the timeout timer.
TimerConfigured(ms) == ms > 0

\* Mutant of RunnerStart: the signal is not looked at when the child is
\* spawned, and the listener is installed whatever its state.
RunnerStartListenerOnly(s, spawned) ==
    LET r0 == [NoRun EXCEPT !.child = IF spawned THEN "running" ELSE "failed",
                            !.promise = "pending"]
        r1 == IF s \in {"aborted", "clear"} THEN [r0 EXCEPT !.listener = "installed"]
              ELSE r0
    IN  [r1 EXCEPT !.timer = TimerConfigured(timeoutMs)]

\* The synchronous body of the promise executor of defaultCodexRunner, for a
\* request whose signal is s; spawned: the child process started.
RunnerStart(s, spawned) ==
    LET r0 == [NoRun EXCEPT !.child = IF spawned THEN "running" ELSE "failed",
                            !.promise = "pending"]
        r1 == IF s = "aborted" THEN onAbort(r0)
              ELSE IF s = "clear" THEN [r0 EXCEPT !.listener = "installed"]
              ELSE r0
    IN  [r1 EXCEPT !.timer = TimerConfigured(timeoutMs)]

\* exitCode: typeof code === "number" ? code : -1
ExitCodeOf(code, bySignal) == IF bySignal THEN -1 ELSE code

----------------------------------------------------------------------------
(* Initial state: the providers are constructed, nothing has been invoked *)

\* What the promise returned by invokeBatch settled with: the responses it
\* resolved with, or the error it was rejected with.
BatchOutcome(kind, detail, value) == [kind |-> kind, detail |-> detail, value |-> value]

\* session.responseFiles: a list of response files, or undefined.
ResponseFiles(files) == [def |-> TRUE, files |-> files]

NoResponseFiles == [def |-> FALSE, files |-> <<>>]

\* invokeBatch has not been called.  Of an invokeBatch call: the await it is
\* suspended at, config.dryRun, the requests, the arguments of each call of
\* dispatchBatchAgent, the session, the local list responses, and the number
\* of readFile calls made.
NoBatch ==
    [pc |-> "idle", dryRun |-> FALSE, requests |-> <<>>, dispatched |-> <<>>,
     session |-> [exitCode |-> 0, responseFiles |-> NoResponseFiles],
     responses |-> <<>>, reads |-> 0, outcome |-> BatchOutcome("none", "", <<>>)]

\* No function has been applied on its own.
NotApplied == [fn |-> "none", arg |-> <<>>, ret |-> <<>>]

Init ==
    /\ env \in [creds : BOOLEAN, config : BOOLEAN, exec : BOOLEAN]
    /\ environmentCheck = [st |-> "unset", why |-> ""]
    /\ validating = "none"
    /\ resolvedExecutable = FALSE
    /\ validationRuns = 0
    /\ timeoutMs \in TimeoutChoices
    /\ dirs = {}
    /\ pc = [c \in Calls |-> "idle"]
    /\ prov = [c \in Calls |-> "codex"]
    /\ sig = [c \in Calls |-> "none"]
    /\ ws = [c \in Calls |-> 0]
    /\ run = [c \in Calls |-> NoRun]
    /\ tryOut = [c \in Calls |-> NoCompletion]
    /\ outcome = [c \in Calls |-> NoCompletion]
    /\ cleanups = [c \in Calls |-> 0]
    /\ runnerCalls = [c \in Calls |-> 0]
    /\ applied = NotApplied
    /\ batch = NoBatch

providerVars == <<environmentCheck, validating, resolvedExecutable, validationRuns>>

\* The promise returned by invoke settles with completion comp.  What the
\* settled call no longer refers to is dropped: its workspace path, the held
\* completion, the closure of a runner whose child has closed, and the signal
\* (kept only for a call rejected at entry).
Settle(c, comp) ==
    /\ pc' = [pc EXCEPT ![c] = "settled"]
    /\ outcome' = [outcome EXCEPT ![c] = comp]
    /\ sig' = [sig EXCEPT ![c] = IF comp.kind = "aborted" THEN "aborted" ELSE "none"]
    /\ ws' = [ws EXCEPT ![c] = 0]
    /\ tryOut' = [tryOut EXCEPT ![c] = NoCompletion]
    /\ run' = [run EXCEPT ![c] = IF run[c].child = "closed" THEN NoRun ELSE run[c]]

\* A slot is free once its call has settled and no event of its child process
\* is still to be delivered.
SlotFree(c) ==
    /\ pc[c] \in IdlePcs
    /\ run[c].child = "none"

----------------------------------------------------------------------------
(* Environment validation *)

\* The environment outside the program: a credential variable is set or
\* unset, the configuration file or the executable appears or disappears.
\* validateEnvironment reads each fact once, so a change while a validation is
\* in flight acts like a change before or after it, and nothing reads the
\* environment once the check has resolved: the changes modelled are those
\* before the first validation and after a failed one.
EnvChange(k) ==
    /\ environmentCheck.st \in {"unset", "rejected"}
    /\ env' = [env EXCEPT ![k] = ~env[k]]
    /\ UNCHANGED <<aside, providerVars, timeoutMs, dirs, pc, prov, sig, ws, run,
                   tryOut, outcome, cleanups, runnerCalls>>

\* Mutant of MustValidate: only a settled outcome is memoized, not the
\* validation in flight.
MustValidateWhilePending == environmentCheck.st \in {"unset", "pending"}

\* Mutant of MustValidate: a failed validation is not memoized.
MustValidateAfterFailure == environmentCheck.st \in {"unset", "rejected"}

\* ensureEnvironmentReady: validation is started only when no promise is stored.
MustValidate == environmentCheck.st = "unset"

\* Mutant of StartValidation: the credentials are not looked at first.
StartValidationFromConfig ==
    /\ validationRuns' = Inc(validationRuns)
    /\ environmentCheck' = [st |-> "pending", why |-> ""]
    /\ validating' = "config"
    /\ UNCHANGED resolvedExecutable

\* validateEnvironment up to its first await: the credential check.
StartValidation ==
    /\ validationRuns' = Inc(validationRuns)
    /\ IF env.creds
       THEN /\ environmentCheck' = [st |-> "pending", why |-> ""]
            /\ validating' = "config"
       ELSE /\ environmentCheck' = [st |-> "rejected", why |-> "credentials"]
            /\ validating' = "none"
    /\ UNCHANGED resolvedExecutable

ensureEnvironmentReady ==
    IF MustValidate THEN StartValidation ELSE UNCHANGED providerVars

\* validateEnvironment resumes after access(configPath) of ensureFileExists.
ValidateConfig ==
    /\ validating = "config"
    /\ IF env.config
       THEN /\ validating' = "exec"
            /\ UNCHANGED environmentCheck
       ELSE /\ validating' = "none"
            /\ environmentCheck' = [st |-> "rejected", why |-> "config"]
    /\ UNCHANGED <<aside, env, resolvedExecutable, validationRuns, timeoutMs, dirs, pc, prov,
                   sig, ws, run, tryOut, outcome, cleanups, runnerCalls>>

\* validateEnvironment resumes after locateExecutable.
ValidateExecutable ==
    /\ validating = "exec"
    /\ validating' = "none"
    /\ IF env.exec
       THEN /\ resolvedExecutable' = TRUE
            /\ environmentCheck' = [st |-> "resolved", why |-> ""]
       ELSE /\ UNCHANGED resolvedExecutable
            /\ environmentCheck' = [st |-> "rejected", why |-> "executable"]
    /\ UNCHANGED <<aside, env, validationRuns, timeoutMs, dirs, pc, prov, sig, ws, run,
                   tryOut, outcome, cleanups, runnerCalls>>

----------------------------------------------------------------------------
(* validateEnvironment as a function of what it reads: the messages of the *)
(* errors it throws.  A path and a command name are texts whose separator  *)
(* is the token "/".                                                       *)

\* Boolean(value && value.trim().length > 0) of an environment variable.
NonBlankVariable(value) == value.def /\ Len(trim(value.text)) > 0

\* path.resolve of a path text.
ResolvePath(p) == IF p # <<>> /\ Head(p) = "/" THEN p ELSE <<"/", "cwd", "/">> \o p

\* path.join(homedir(), ".codex", "config")
DefaultConfigPath == <<"/", "home", "/", ".codex", "/", "config">>

resolveCodexConfigPath(override) ==
    IF NonBlankVariable(override) THEN ResolvePath(trim(override.text))
    ELSE DefaultConfigPath

\* The error ensureFileExists throws when access is rejected.
FileMissingMessage(message, filePath) == <<message, ":">> \o filePath

\* The rejection of fs access, as Node reports it: the error code, the
\* system call and the path.
AccessError(code, filePath) == <<code, "access">> \o filePath

RECURSIVE SplitLines(_)
\* String.prototype.split on line ends.
SplitLines(text) ==
    LET ends == {i \in 1..Len(text) : text[i] = "\n"}
        first == CHOOSE i \in ends : \A j \in ends : i <= j
    IN  IF ends = {} THEN <<text>>
        ELSE <<SubSeq(text, 1, first - 1)>> \o SplitLines(SubSeq(text, first + 1, Len(text)))

\* The first line of stdout that is not blank, trimmed, or undefined.
FirstLine(stdout) ==
    LET lines == SplitLines(stdout)
        found == {i \in 1..Len(lines) : Len(trim(lines[i])) > 0}
    IN  IF found = {} THEN NoText
        ELSE SomeText(trim(lines[CHOOSE i \in found : \A j \in found : i <= j]))

\* What a check of validateEnvironment ends with: the value or the message
\* of the error thrown.
Located(resolved) == [ok |-> TRUE, resolved |-> resolved, message |-> <<>>]

Rejected(message) == [ok |-> FALSE, resolved |-> <<>>, message |-> message]

\* locateExecutable.  accessCode: the code access rejects with ("": it
\* resolves); which: whether the path-search command fails, and its output.
locateExecutable(candidate, accessCode, which) ==
    LET includesPathSeparator == \E i \in 1..Len(candidate) : candidate[i] = "/"
        resolved == ResolvePath(candidate)
        firstLine == FirstLine(which.stdout)
    IN  IF includesPathSeparator
        THEN (IF accessCode = "" THEN Located(resolved)
              ELSE Rejected(AccessError(accessCode, resolved)))
        ELSE IF ~which.rejected /\ Truthy(firstLine)
        THEN Located(firstLine.text)
        ELSE Rejected(<<"Codex executable">> \o candidate \o <<"was not found on PATH">>)

\* validateEnvironment, for the process environment and the file system e
\* and config.executable.
validateEnvironment(e, executable) ==
    LET hasOpenAi == NonBlankVariable(e.OPENAI_API_KEY)
        hasCodex == NonBlankVariable(e.CODEX_API_KEY)
        configPath == resolveCodexConfigPath(e.CODEX_CONFIG_PATH)
    IN  IF ~hasOpenAi /\ ~hasCodex
        THEN Rejected(<<"Codex provider requires", "OPENAI_API_KEY", "or",
                        "CODEX_API_KEY", "to be set before running evals">>)
        ELSE IF e.configAccess # ""
        THEN Rejected(FileMissingMessage(
                          "Codex configuration (~/.codex/config) was not found",
                          configPath))
        ELSE locateExecutable(executable, e.executableAccess, e.which)

----------------------------------------------------------------------------
(* CodexProvider.invoke *)

\* Mutant of EntryAborted: no entry check.
EntryAbortedIgnored(s) == FALSE

\* The entry check of invoke on request.signal?.aborted.
EntryAborted(s) == s = "aborted"

\* A call starts in slot c on provider p: the slot's record of its previous
\* call is discarded.
StartCall(c, p) ==
    /\ SlotFree(c)
    /\ prov' = [prov EXCEPT ![c] = p]
    /\ cleanups' = [cleanups EXCEPT ![c] = 0]
    /\ runnerCalls' = [runnerCalls EXCEPT ![c] = 0]

\* invoke is called with a request whose signal is s; runs to the first await.
CodexInvoke(c, s) ==
    /\ StartCall(c, "codex")
    /\ IF EntryAborted(s)
       THEN /\ Settle(c, Failure("aborted", ""))
            /\ UNCHANGED providerVars
       ELSE /\ pc' = [pc EXCEPT ![c] = "awaitEnv"]
            /\ sig' = [sig EXCEPT ![c] = s]
            /\ outcome' = [outcome EXCEPT ![c] = NoCompletion]
            /\ ensureEnvironmentReady
            /\ UNCHANGED <<ws, run, tryOut>>
    /\ UNCHANGED <<aside, env, timeoutMs, dirs>>

\* Mutant of EnvironmentRejected: only the credential failure is rethrown.
EnvironmentRejectedCredentialsOnly ==
    environmentCheck.st = "rejected" /\ environmentCheck.why = "credentials"

\* await this.environmentCheck throws when the stored promise is rejected.
EnvironmentRejected == environmentCheck.st = "rejected"

\* invoke resumes after await ensureEnvironmentReady(): a stored rejection is
\* rethrown, otherwise mkdtemp is called.
EnvironmentSettled(c) ==
    /\ pc[c] = "awaitEnv"
    /\ environmentCheck.st \in {"resolved", "rejected"}
    /\ IF EnvironmentRejected
       THEN Settle(c, Failure("environment", environmentCheck.why))
       ELSE /\ pc' = [pc EXCEPT ![c] = "createWorkspace"]
            /\ UNCHANGED <<sig, outcome, ws, run, tryOut>>
    /\ UNCHANGED <<aside, env, providerVars, timeoutMs, dirs, prov, cleanups, runnerCalls>>

\* Mutant of FreshDir: the first name, whether or not it is taken.
FreshDirFixedName == CHOOSE d \in DirNames : \A e \in DirNames : d <= e

\* mkdtemp names a directory that does not exist yet.
FreshDir == CHOOSE d \in DirNames \ dirs : \A e \in DirNames \ dirs : d <= e

\* createWorkspace settles: with a fresh directory, or mkdtemp was rejected and
\* invoke rejects outside the try block.
CreateWorkspace(c, ok) ==
    /\ pc[c] = "createWorkspace"
    /\ ok => DirNames \ dirs # {}
    /\ IF ok
       THEN /\ ws' = [ws EXCEPT ![c] = FreshDir]
            /\ dirs' = dirs \cup {FreshDir}
            /\ pc' = [pc EXCEPT ![c] = "mirror"]
            /\ UNCHANGED <<sig, outcome, run, tryOut>>
       ELSE /\ Settle(c, Failure("mkdtemp", ""))
            /\ UNCHANGED dirs
    /\ UNCHANGED <<aside, env, providerVars, timeoutMs, prov, cleanups, runnerCalls>>

\* Mutant of AfterTry: the workspace is removed at the end of the try block
\* instead of in a finally block, so a failure settles the call at once.
AfterTrySuccessOnly(c, comp) ==
    IF comp.kind = "response"
    THEN /\ tryOut' = [tryOut EXCEPT ![c] = comp]
         /\ cleanups' = [cleanups EXCEPT ![c] = Inc(cleanups[c])]
         /\ pc' = [pc EXCEPT ![c] = "cleanup"]
         /\ sig' = [sig EXCEPT ![c] = "none"]
         /\ UNCHANGED <<outcome, ws, runnerCalls>>
    ELSE /\ pc' = [pc EXCEPT ![c] = "settled"]
         /\ outcome' = [outcome EXCEPT ![c] = comp]
         /\ sig' = [sig EXCEPT ![c] = "none"]
         /\ UNCHANGED <<tryOut, cleanups, runnerCalls, ws>>

\* The finally block of invoke: whatever the try block completed with, rm is
\* called on the workspace and the completion is held until rm settles.  The
\* call does not read the signal again.
AfterTry(c, comp) ==
    /\ tryOut' = [tryOut EXCEPT ![c] = comp]
    /\ cleanups' = [cleanups EXCEPT ![c] = Inc(cleanups[c])]
    /\ pc' = [pc EXCEPT ![c] = "cleanup"]
    /\ sig' = [sig EXCEPT ![c] = "none"]
    /\ UNCHANGED <<outcome, ws, runnerCalls>>

\* mirrorAttachments settles: the copies were made (or there was nothing to
\* copy) and writeFile is called, or mkdir/copyFile was rejected.
MirrorAttachments(c, ok) ==
    /\ pc[c] = "mirror"
    /\ IF ok
       THEN /\ pc' = [pc EXCEPT ![c] = "writePrompt"]
            /\ UNCHANGED <<sig, outcome, ws, tryOut, cleanups, runnerCalls>>
       ELSE AfterTry(c, Failure("copy", ""))
    /\ UNCHANGED <<aside, env, providerVars, timeoutMs, dirs, prov, run>>

\* writeFile settles: executeCodex calls the runner, whose executor spawns the
\* child and installs the abort listener and the timer; or writeFile was
\* rejected.
WritePrompt(c, ok, spawned) ==
    /\ pc[c] = "writePrompt"
    /\ IF ok
       THEN /\ run' = [run EXCEPT ![c] = RunnerStart(sig[c], spawned)]
            /\ runnerCalls' = [runnerCalls EXCEPT ![c] = Inc(runnerCalls[c])]
            /\ pc' = [pc EXCEPT ![c] = "running"]
            /\ UNCHANGED <<sig, outcome, ws, tryOut, cleanups>>
       ELSE /\ AfterTry(c, Failure("writePrompt", ""))
            /\ UNCHANGED run
    /\ UNCHANGED <<aside, env, providerVars, timeoutMs, dirs, prov>>

\* rm settles and invoke settles with the completion of the try block.
CleanupWorkspace(c, rmOk) ==
    /\ pc[c] = "cleanup"
    /\ dirs' = IF rmOk THEN dirs \ {ws[c]} ELSE dirs
    /\ Settle(c, CleanupCompletion(tryOut[c], rmOk))
    /\ UNCHANGED <<aside, env, providerVars, timeoutMs, prov, cleanups, runnerCalls>>


----------------------------------------------------------------------------
(* defaultCodexRunner: the handlers installed by the promise executor.     *)
(* Settling the runner's promise resumes executeCodex and invoke in the    *)
(* same turn of the microtask queue, before any other event is handled:    *)
(* the handler that settles the promise and the code of invoke up to its   *)
(* next await (the rm call of the finally block) are one action.           *)

\* The request's signal is aborted while the call is in flight; the abort
\* listener, if installed, runs onAbort (and is removed: once).
Abort(c) ==
    /\ sig[c] = "clear"
    /\ pc[c] \notin IdlePcs
    /\ sig' = [sig EXCEPT ![c] = "aborted"]
    /\ run' = [run EXCEPT ![c] = IF run[c].listener = "installed"
                                 THEN [onAbort(run[c]) EXCEPT !.listener = "fired"]
                                 ELSE run[c]]
    /\ UNCHANGED <<aside, env, providerVars, timeoutMs, dirs, pc, prov, ws, tryOut, outcome,
                   cleanups, runnerCalls>>

\* The callback of setTimeout.
TimerFired(r) == [Kill(r) EXCEPT !.timedOut = TRUE, !.timer = FALSE]

\* Mutant of TimerFire: the timer callback rejects the promise of the runner
\* itself instead of waiting for the close event.
TimerFireRejecting(c) ==
    /\ run[c].timer
    /\ run[c].child = "running"
    /\ run' = [run EXCEPT ![c] = [TimerFired(run[c]) EXCEPT !.promise = "rejected"]]
    /\ AfterTry(c, Completion("timeout", formatTimeoutSuffix(timeoutMs), <<>>))
    /\ UNCHANGED <<aside, env, providerVars, timeoutMs, dirs, prov>>

\* The timer expires.  The error event of a failed spawn is emitted on the
\* next tick, ahead of every timer, and its cleanup() clears the timer: the
\* timer expires only on a child that was spawned.
TimerFire(c) ==
    /\ run[c].timer
    /\ run[c].child = "running"
    /\ run' = [run EXCEPT ![c] = TimerFired(run[c])]
    /\ UNCHANGED <<aside, env, providerVars, timeoutMs, dirs, pc, prov, sig, ws, tryOut,
                   outcome, cleanups, runnerCalls>>

\* child.on("error") after a failed spawn: cleanup() and reject(error); then
\* the catch block of executeCodex and the finally block of invoke.
ChildError(c, code) ==
    /\ run[c].child = "failed"
    /\ run' = [run EXCEPT ![c] =
                 [RunnerCleanup(run[c]) EXCEPT !.child = "errored",
                                               !.promise = "rejected"]]
    /\ AfterTry(c, ExecuteFailure(SpawnError(code)))
    /\ UNCHANGED <<aside, env, providerVars, timeoutMs, dirs, prov>>

\* child.on("close") of a running child: cleanup() and resolve(result); then
\* the rest of the try block and the finally block of invoke.
ChildClose(c, code, bySignal, out, err) ==
    /\ run[c].child = "running"
    /\ run' = [run EXCEPT ![c] =
                 [RunnerCleanup(run[c]) EXCEPT !.child = "closed",
                                               !.promise = "resolved"]]
    /\ AfterTry(c, ResultCompletion(
                     RunResult(out, err, ExitCodeOf(code, bySignal), run[c].timedOut)))
    /\ UNCHANGED <<aside, env, providerVars, timeoutMs, dirs, prov>>

\* child.on("close") after the error event of a failed spawn: cleanup() again,
\* and resolve has no effect on the rejected promise.
ChildCloseAfterError(c) ==
    /\ run[c].child = "errored"
    /\ run' = [run EXCEPT ![c] = IF pc[c] \in IdlePcs
                                 THEN NoRun
                                 ELSE [RunnerCleanup(run[c]) EXCEPT !.child = "closed"]]
    /\ UNCHANGED <<aside, env, providerVars, timeoutMs, dirs, pc, prov, sig, ws, tryOut,
                   outcome, cleanups, runnerCalls>>

----------------------------------------------------------------------------
(* VSCodeProvider.invoke *)

\* Two VSCodeProvider instances: config.dryRun off and on.
VSCodeProviders == {"vscode", "vscodeDryRun"}

\* invoke is called on provider p with a request whose signal is s; runs to
\* await dispatchAgentSession(...).
VSCodeInvoke(c, p, s) ==
    /\ StartCall(c, p)
    /\ IF EntryAborted(s)
       THEN Settle(c, Failure("aborted", ""))
       ELSE /\ pc' = [pc EXCEPT ![c] = "dispatch"]
            /\ sig' = [sig EXCEPT ![c] = s]
            /\ outcome' = [outcome EXCEPT ![c] = NoCompletion]
            /\ UNCHANGED <<ws, run, tryOut>>
    /\ UNCHANGED <<aside, env, providerVars, timeoutMs, dirs>>

\* The session dispatchAgentSession resolved with: its exit code, whether
\* responseFile is a non-empty string, and its error text or undefined.
Session(exitCode, responseFile, error) ==
    [exitCode |-> exitCode, responseFile |-> responseFile, error |-> error]

\* The message of the error thrown for a session without an error text.
NoResponseMessage == <<"VS Code subagent did not produce a response">>

\* Mutant of AfterSession: the dry-run return precedes the check of the
\* session.
AfterSessionDryRunFirst(dryRun, session) ==
    IF dryRun
    THEN Completion("response", 0, <<>>)
    ELSE IF session.exitCode # 0 \/ ~session.responseFile
    THEN Completion("session", 0, IF session.error.def THEN session.error.text
                                                       ELSE NoResponseMessage)
    ELSE NoCompletion

\* What invoke does with the session before it reads anything: the
\* completion the call settles with, or NoCompletion when it goes on to
\* readFile(session.responseFile).
AfterSession(dryRun, session) ==
    IF session.exitCode # 0 \/ ~session.responseFile
    THEN Completion("session", 0, IF session.error.def THEN session.error.text
                                                       ELSE NoResponseMessage)
    ELSE IF dryRun
    THEN Completion("response", 0, <<>>)
    ELSE NoCompletion

\* The error texts of a session: undefined, empty, and a message.
SessionErrors == {NoText, SomeText(<<>>), SomeText(<<"boom">>)}

\* The session settles.  exitCode, responseFile and error are the fields of the
\* session; thrown: dispatchAgentSession rejected.
SessionSettled(c, thrown, exitCode, responseFile, error) ==
    /\ pc[c] = "dispatch"
    /\ LET comp == AfterSession(prov[c] = "vscodeDryRun",
                                Session(exitCode, responseFile, error))
       IN  IF thrown
           THEN Settle(c, Failure("dispatch", ""))
           ELSE IF comp # NoCompletion
           THEN Settle(c, comp)
           ELSE /\ pc' = [pc EXCEPT ![c] = "readResponse"]
                /\ UNCHANGED <<sig, outcome, ws, run, tryOut>>
    /\ UNCHANGED <<aside, env, providerVars, timeoutMs, dirs, prov, cleanups, runnerCalls>>

\* readFile(session.responseFile) settles.
ResponseRead(c, ok) ==
    /\ pc[c] = "readResponse"
    /\ Settle(c, IF ok THEN Completion("response", 0, <<"fileText">>)
                       ELSE Failure("readFile", ""))
    /\ UNCHANGED <<aside, env, providerVars, timeoutMs, dirs, prov, cleanups, runnerCalls>>

----------------------------------------------------------------------------
(* Specification *)

CodexNext ==
    \/ \E k \in {"creds", "config", "exec"} : EnvChange(k)
    \/ ValidateConfig
    \/ ValidateExecutable
    \/ \E c \in Calls, s \in Signals : CodexInvoke(c, s)
    \/ \E c \in Calls : EnvironmentSettled(c)
    \/ \E c \in Calls, ok \in BOOLEAN : CreateWorkspace(c, ok)
    \/ \E c \in Calls, ok \in BOOLEAN : MirrorAttachments(c, ok)
    \/ \E c \in Calls, ok \in BOOLEAN, spawned \in BOOLEAN : WritePrompt(c, ok, spawned)
    \/ \E c \in Calls : Abort(c)
    \/ \E c \in Calls : TimerFire(c)
    \/ \E c \in Calls, code \in {"ENOENT", "EACCES"} : ChildError(c, code)
    \/ \E c \in Calls, code \in {0, 1}, bySignal \in BOOLEAN, out \in Stdouts,
          err \in Stderrs : ChildClose(c, code, bySignal, out, err)
    \/ \E c \in Calls : ChildCloseAfterError(c)
    \/ \E c \in Calls, rmOk \in BOOLEAN : CleanupWorkspace(c, rmOk)

VSCodeNext ==
    \/ \E c \in Calls, p \in VSCodeProviders, s \in Signals : VSCodeInvoke(c, p, s)
    \/ \E c \in Calls, thrown \in BOOLEAN, exitCode \in {0, 1}, responseFile \in BOOLEAN,
          error \in SessionErrors : SessionSettled(c, thrown, exitCode, responseFile, error)
    \/ \E c \in Calls, ok \in BOOLEAN : ResponseRead(c, ok)

Next == CodexNext \/ VSCodeNext

Spec == Init /\ [][Next]_vars


\* What the event loop and the file system guarantee once the runner has been
\* called: a due timer fires, the error event of a failed spawn and the close
\* event that follows it are delivered, and the rm of the finally block
\* settles.  When a running child closes is up to the child.
Fairness ==
    \A c \in Calls :
        /\ WF_vars(TimerFire(c))
        /\ WF_vars(\E code \in {"ENOENT", "EACCES"} : ChildError(c, code))
        /\ WF_vars(ChildCloseAfterError(c))
        /\ WF_vars(\E rmOk \in BOOLEAN : CleanupWorkspace(c, rmOk))

\* The CodexProvider alone, under the fairness above.  Calls on a
\* VSCodeProvider share nothing with it.
FairSpec == Init /\ [][CodexNext]_vars /\ Fairness

\* The initial states in which the environment is valid: the environment
\* plays no part in a VSCodeProvider or in a function applied on its own.
FunctionInit == Init /\ env = [creds |-> TRUE, config |-> TRUE, exec |-> TRUE]

----------------------------------------------------------------------------
(* Attachments, guideline files and the prompt document (preread.js).      *)
(* A path is its directory and its base name; the base name is the list of *)
(* its parts between dots (a.md is <<"a", "md">>).  The directory "" is    *)
(* that of a relative path.  An absent list (undefined) and an empty list  *)
(* are treated alike by every function here, and both are <<>>.            *)

Path(dir, base) == [dir |-> dir, base |-> base]

\* process.cwd()
CwdDir == "/cwd"

\* path.resolve: a relative path is taken from the working directory.
resolve(p) == IF p.dir = "" THEN Path(CwdDir, p.base) ELSE p

\* path.basename
basename(p) == p.base

\* Map.prototype.has for a Map whose values, in insertion order, are list.
Has(list, p) == \E i \in 1..Len(list) : list[i] = p

RECURSIVE Unique(_)
\* The values of a Map filled in the order of list and keyed by the resolved
\* path, a key being set only when the Map does not have it: the first
\* occurrences of the resolved paths, in order.
Unique(list) ==
    IF list = <<>> THEN <<>>
    ELSE LET deduped == Unique(SubSeq(list, 1, Len(list) - 1))
             absolutePath == resolve(list[Len(list)])
         IN  IF ~Has(deduped, absolutePath) THEN Append(deduped, absolutePath)
             ELSE deduped

\* A list of paths | undefined.
SomeList(list) == [def |-> TRUE, list |-> list]

NoList == [def |-> FALSE, list |-> <<>>]

\* Mutant of normalizeAttachments: an empty list is returned as it is.
normalizeAttachmentsKeepingEmpty(attachments) ==
    IF ~attachments.def THEN NoList ELSE SomeList(Unique(attachments.list))

\* normalizeAttachments: undefined for no list and for the empty list, else
\* the resolved paths, each once, in the order of their first occurrence.
normalizeAttachments(attachments) ==
    IF ~attachments.def \/ Len(attachments.list) = 0
    THEN NoList
    ELSE SomeList(Unique(attachments.list))

collectAttachmentFiles(attachments) == Unique(attachments)

\* A glob pattern, by what it tests: the last part of the base name
\* ("**/*.md") or the directory ("/guides/*").
ExtensionPattern(ext) == [kind |-> "ext", v |-> ext]

DirectoryPattern(dir) == [kind |-> "dir", v |-> dir]

Matches(p, pattern) ==
    IF pattern.kind = "ext"
    THEN Len(p.base) >= 2 /\ p.base[Len(p.base)] = pattern.v
    ELSE p.dir = pattern.v

\* isGuidelineFile of yaml-parser.js: some pattern matches the path.
isGuidelineFile(p, guidelinePatterns) == \E pattern \in guidelinePatterns : Matches(p, pattern)

RECURSIVE collectGuidelineFiles(_, _, _)
\* collectGuidelineFiles: the resolved attachments that are in overrides or
\* match a pattern, first occurrences, in order.
collectGuidelineFiles(attachments, guidelinePatterns, overrides) ==
    IF attachments = <<>> THEN <<>>
    ELSE LET unique == collectGuidelineFiles(
                           SubSeq(attachments, 1, Len(attachments) - 1),
                           guidelinePatterns, overrides)
             absolutePath == resolve(attachments[Len(attachments)])
         IN  IF (absolutePath \in overrides
                   \/ isGuidelineFile(absolutePath, guidelinePatterns))
                /\ ~Has(unique, absolutePath)
             THEN Append(unique, absolutePath)
             ELSE unique

\* The lists of buildMandatoryPrereadBlock, which renders each file of each
\* list as one bullet of its base name and its URI.
PromptDocument(guidelineFiles, attachmentFiles, prompt) ==
    [guidelines |-> guidelineFiles, attachments |-> attachmentFiles, query |-> prompt]

\* Mutant of SelectNotIn: nothing is filtered out.
SelectAll(list, excluded) == list

\* list.filter((file) => !excluded.includes(file))
SelectNotIn(list, excluded) == SelectSeq(list, LAMBDA f : ~Has(excluded, f))

\* buildPromptDocument(request, attachments, {guidelinePatterns, guidelineOverrides})
buildPromptDocument(prompt, attachments, guidelinePatterns, guidelineOverrides) ==
    LET guidelineFiles == collectGuidelineFiles(attachments, guidelinePatterns,
                                                guidelineOverrides)
        attachmentFiles == collectAttachmentFiles(attachments)
        nonGuidelineAttachments == SelectNotIn(attachmentFiles, guidelineFiles)
    IN  PromptDocument(guidelineFiles, nonGuidelineAttachments, trim(prompt))

\* path.join(workspaceRoot, FILES_DIR) of the workspace the pure functions
\* mirror into.
FilesRoot == "/tmp/agentv-codex-1/files"

\* The decimal digits of a count from 1 to 9.
Decimal(count) == <<"1", "2", "3", "4", "5", "6", "7", "8", "9">>[count]

\* nameCounts.get(baseName) ?? 0 when attachment i is reached: how many
\* earlier attachments have its base name.
\* Mutant of NameCount: every earlier attachment counts, whatever its name.
NameCountOfAll(attachments, i) == Cardinality(1..(i - 1))

NameCount(attachments, i) ==
    Cardinality({j \in 1..(i - 1) :
                    basename(resolve(attachments[j])) = basename(resolve(attachments[i]))})

\* The destination of attachment i: its base name under filesRoot, with the
\* count appended after a dot when the base name was seen before.
Destination(attachments, filesRoot, i) ==
    LET baseName == basename(resolve(attachments[i]))
        count == NameCount(attachments, i)
    IN  Path(filesRoot, IF count = 0 THEN baseName ELSE Append(baseName, Decimal(count)))

\* Mutant of MirroredPaths: no mirrored path is recorded as a guideline.
MirroredPathsWithoutGuidelines(attachments, filesRoot, guidelineOriginals) ==
    [mirroredAttachments |->
         [i \in 1..Len(attachments) |-> Destination(attachments, filesRoot, i)],
     guidelineMirrors |-> {}]

\* What mirrorAttachments returns (its copies aside): the destinations in the
\* order of the attachments, and those whose source is in guidelineOriginals.
MirroredPaths(attachments, filesRoot, guidelineOriginals) ==
    [mirroredAttachments |->
         [i \in 1..Len(attachments) |-> Destination(attachments, filesRoot, i)],
     guidelineMirrors |->
         {Destination(attachments, filesRoot, i) :
             i \in {j \in 1..Len(attachments) :
                       resolve(attachments[j]) \in guidelineOriginals}}]

\* Elements of a list, as a set.
Range(list) == {list[i] : i \in 1..Len(list)}

\* The part of CodexProvider.invoke that turns a request into the prompt
\* document: normalize, classify, mirror, build.
CodexPrompt(request) ==
    LET attachments == normalizeAttachments(SomeList(request.attachments)).list
        originalGuidelines ==
            {resolve(file) :
                file \in Range(collectGuidelineFiles(attachments,
                                                     request.guideline_patterns, {}))}
        mirror == MirroredPaths(attachments, FilesRoot, originalGuidelines)
    IN  [attachments |-> attachments,
         mirroredAttachments |-> mirror.mirroredAttachments,
         guidelineMirrors |-> mirror.guidelineMirrors,
         promptContent |-> buildPromptDocument(request.prompt,
                                               mirror.mirroredAttachments,
                                               request.guideline_patterns,
                                               mirror.guidelineMirrors)]

----------------------------------------------------------------------------
(* VSCodeProvider.invokeBatch.  A VSCodeProvider keeps nothing from one    *)
(* call to the next: the batch call is followed on its own, from the state *)
(* in which no invoke call has been made.                                  *)

RECURSIVE Flatten(_)
\* The input files of all lists that are defined, in order.
Flatten(lists) ==
    IF lists = <<>> THEN <<>>
    ELSE (IF Head(lists).def THEN Head(lists).list ELSE <<>>) \o Flatten(Tail(lists))

\* Mutant of mergeInputFiles: the lists are put one after the other.
mergeInputFilesKeepingAll(all) ==
    LET files == Flatten(all)
    IN  IF Len(files) > 0 THEN SomeList(files) ELSE NoList

\* mergeInputFiles: the resolved input files of all requests, each once, in
\* the order of their first occurrence, or undefined when there is none.
mergeInputFiles(all) ==
    LET deduped == Unique(Flatten(all))
    IN  IF Len(deduped) > 0 THEN SomeList(deduped) ELSE NoList

\* normalizedRequests[i].inputFiles
NormalizedInputFiles(requests) ==
    [i \in 1..Len(requests) |-> normalizeAttachments(requests[i].inputFiles)]

\* The content readFile reads from a response file.
ContentOf(responseFile) == <<"content of", responseFile>>

\* Mutant of DryRunResponse: the text names the response that was not read.
DryRunResponseWithText(inputFiles, combinedInputFiles) ==
    [text |-> <<"dry run">>, inputFiles |-> inputFiles,
     allInputFiles |-> combinedInputFiles, responseFile |-> ""]

\* The element of the list that invokeBatch returns in dry-run mode.
DryRunResponse(inputFiles, combinedInputFiles) ==
    [text |-> <<>>, inputFiles |-> inputFiles, allInputFiles |-> combinedInputFiles,
     responseFile |-> ""]

\* Mutant of ReadResponse: the metadata carries the combined list.
ReadResponseCombined(responseText, inputFiles, combinedInputFiles, responseFile) ==
    [text |-> responseText, inputFiles |-> combinedInputFiles,
     allInputFiles |-> combinedInputFiles, responseFile |-> responseFile]

\* The element pushed onto responses after reading responseFile.
ReadResponse(responseText, inputFiles, combinedInputFiles, responseFile) ==
    [text |-> responseText, inputFiles |-> inputFiles,
     allInputFiles |-> combinedInputFiles, responseFile |-> responseFile]

\* userQueries: the prompt document of each request, built from the
\* request and its own input files.
UserQueries(requests) ==
    LET inputFiles == NormalizedInputFiles(requests)
    IN  [i \in 1..Len(requests) |->
            buildPromptDocument(requests[i].prompt, inputFiles[i].list,
                                requests[i].guideline_patterns, {})]

\* Mutant of BatchSessions: one session for each request.
BatchSessionsPerRequest(userQueries, extraAttachments) ==
    [i \in 1..Len(userQueries) |->
        [userQueries |-> <<userQueries[i]>>, extraAttachments |-> extraAttachments]]

\* The calls of dispatchBatchAgent that invokeBatch makes: one, with all the
\* prompt documents and the combined input files.
BatchSessions(userQueries, extraAttachments) ==
    <<[userQueries |-> userQueries, extraAttachments |-> extraAttachments]>>

BatchSettle(kind, detail, value) ==
    batch' = [batch EXCEPT !.pc = "settled", !.outcome = BatchOutcome(kind, detail, value)]

\* invokeBatch is called on a provider whose config.dryRun is dryRun; runs to
\* await dispatchBatchAgent(...), or returns at once for no requests.
InvokeBatch(dryRun, requests) ==
    /\ batch = NoBatch
    /\ \A c \in Calls : pc[c] = "idle"
    /\ IF Len(requests) = 0
       THEN batch' = [batch EXCEPT !.pc = "settled", !.dryRun = dryRun,
                                   !.outcome = BatchOutcome("returned", "", <<>>)]
       ELSE batch' = [batch EXCEPT
                         !.pc = "dispatch", !.dryRun = dryRun, !.requests = requests,
                         !.dispatched =
                             BatchSessions(UserQueries(requests),
                                 mergeInputFiles(NormalizedInputFiles(requests)))]
    /\ UNCHANGED <<programVars, applied>>

\* invokeBatch resumes after await dispatchBatchAgent(...): thrown says that
\* the dispatch was rejected; otherwise the session has the fields given.
BatchSessionSettled(thrown, exitCode, responseFiles, error) ==
    /\ batch.pc = "dispatch"
    /\ LET inputFiles == NormalizedInputFiles(batch.requests)
           combinedInputFiles == mergeInputFiles(inputFiles)
           b == [batch EXCEPT !.session = [exitCode |-> exitCode,
                                           responseFiles |-> responseFiles]]
       IN  IF thrown
           THEN BatchSettle("failure", "dispatch", <<>>)
           ELSE IF exitCode # 0 \/ ~responseFiles.def
           THEN batch' = [b EXCEPT !.pc = "settled",
                                   !.outcome = BatchOutcome("failure",
                                       IF error THEN "sessionError" ELSE "default", <<>>)]
           ELSE IF batch.dryRun
           THEN batch' = [b EXCEPT !.pc = "settled",
                                   !.outcome = BatchOutcome("returned", "",
                                       [i \in 1..Len(inputFiles) |->
                                           DryRunResponse(inputFiles[i],
                                                          combinedInputFiles)])]
           ELSE IF Len(responseFiles.files) # Len(batch.requests)
           THEN batch' = [b EXCEPT !.pc = "settled",
                                   !.outcome = BatchOutcome("failure", "countMismatch",
                                                            <<>>)]
           ELSE batch' = [b EXCEPT !.pc = "reading", !.reads = 1]
    /\ UNCHANGED <<programVars, applied>>

\* readFile(responseFile) of the loop settles: the response is pushed and the
\* next file is read, or the list is returned after the last file; a rejected
\* readFile rejects invokeBatch.
BatchResponseRead(ok) ==
    /\ batch.pc = "reading"
    /\ LET inputFiles == NormalizedInputFiles(batch.requests)
           combinedInputFiles == mergeInputFiles(inputFiles)
           index == Len(batch.responses) + 1
           responseFile == batch.session.responseFiles.files[index]
           responses == Append(batch.responses,
                               ReadResponse(ContentOf(responseFile), inputFiles[index],
                                            combinedInputFiles, responseFile))
       IN  IF ~ok
           THEN BatchSettle("failure", "readFile", <<>>)
           ELSE IF index = Len(batch.session.responseFiles.files)
           THEN batch' = [batch EXCEPT !.pc = "settled", !.responses = responses,
                                       !.outcome = BatchOutcome("returned", "", responses)]
           ELSE batch' = [batch EXCEPT !.responses = responses,
                                       !.reads = batch.reads + 1]
    /\ UNCHANGED <<programVars, applied>>

\* Longest list of requests given to invokeBatch.
MaxRequests == 2

\* The input files of a request: undefined, one relative path, and a second
\* file followed by that path in relative and in absolute form.
InputFileLists ==
    {NoList, SomeList(<<Path("", <<"a", "md">>)>>),
     SomeList(<<Path(CwdDir, <<"b", "txt">>), Path("", <<"a", "md">>),
                Path(CwdDir, <<"a", "md">>)>>)}

\* A request of a batch: its prompt, its guideline patterns, its input files
\* and its signal (absent, or aborted before the call).
BatchRequest(files, s) ==
    [prompt |-> <<"q">>, guideline_patterns |-> {ExtensionPattern("md")},
     inputFiles |-> files, signal |-> s]

BatchRequests ==
    Texts({BatchRequest(files, s) : files \in InputFileLists, s \in {"none", "aborted"}},
          MaxRequests)

\* The response files of a session: undefined, or a list of one file more
\* than there are requests at most.
SessionResponseFiles ==
    {NoResponseFiles} \cup
        {ResponseFiles(files) : files \in Texts({"r1", "r2"}, MaxRequests + 1)}

VSCodeBatchNext ==
    \/ \E dryRun \in BOOLEAN, requests \in BatchRequests : InvokeBatch(dryRun, requests)
    \/ \E thrown \in BOOLEAN, exitCode \in {0, 1}, responseFiles \in SessionResponseFiles,
          error \in BOOLEAN : BatchSessionSettled(thrown, exitCode, responseFiles, error)
    \/ \E ok \in BOOLEAN : BatchResponseRead(ok)

\* The calls of a VSCodeProvider: invoke calls, or one invokeBatch call.
BatchNext ==
    \/ batch = NoBatch /\ VSCodeNext
    \/ VSCodeBatchNext

BatchSpec == FunctionInit /\ [][BatchNext]_vars

\* The calls that run a process or a batch session: invoke calls on the
\* CodexProvider, or one invokeBatch call, which reads nothing of the
\* environment and is followed from the valid one.
CallsNext ==
    \/ batch = NoBatch /\ CodexNext
    \/ env = [creds |-> TRUE, config |-> TRUE, exec |-> TRUE] /\ VSCodeBatchNext

CallsSpec == FunctionInit /\ [][CallsNext]_vars

----------------------------------------------------------------------------
(* The functions of codex.ts applied on their own: one application, to     *)
(* arguments drawn from bounded sets, in a state where no call is under    *)
(* way.                                                                    *)

\* Function f is applied to a and returns r.
Apply(f, a, r) ==
    /\ applied' = [fn |-> f, arg |-> a, ret |-> r]
    /\ UNCHANGED <<programVars, batch>>

\* Captured streams with white space before, after and inside the text.
StreamTexts == Texts({" ", "e", "\n"}, MaxTextLen)

\* Standard outputs that are not JSON and are as long as the preview of the
\* invalid-JSON error, or longer by one or two characters, some with a brace
\* for the retry to start from.
LongStdouts ==
    {[i \in 1..n |-> IF i = at THEN "{" ELSE "e"] :
        n \in PreviewLength..(PreviewLength + 2), at \in {0, 2}}

\* Standard outputs that are JSON documents whose assistant text is the
\* empty string, as a string and as the one segment of a list.
TextlessStdouts ==
    {<<"{", "output", ":", "", "}">>, <<"{", "output", ":", "[", "", "]", "}">>}

\* The execution results the rest of invoke's try block is applied to.
RunResults ==
    {RunResult(out, err, code, flag) :
        out \in StreamTexts \cup Stdouts \cup LongStdouts \cup TextlessStdouts,
        err \in StreamTexts \cup Stderrs,
        code \in {0, 1, -1}, flag \in BOOLEAN}

ApplyResultCompletion ==
    /\ applied = NotApplied
    /\ \E r \in RunResults : Apply("ResultCompletion", r, ResultCompletion(r))

\* The errors a runner rejects with: spawn errors with their codes, and
\* errors without a code.
RunnerErrors ==
    {ErrorOf(code, message) :
        code \in {"ENOENT", "EACCES", "EPERM", ""}, message \in {"spawn", "boom"}}

ApplyExecuteFailure ==
    /\ applied = NotApplied
    /\ \E error \in RunnerErrors : Apply("executeCodex", error, ExecuteFailure(error))

\* Raw attachment paths: relative and absolute, in and outside a guideline
\* directory, with base names that collide and one that looks like a
\* collision suffix.
RawPaths ==
    {Path(dir, base) :
        dir \in {"", CwdDir, "/g"},
        base \in {<<"a", "md">>, <<"a", "md", "1">>, <<"b", "txt">>}}

\* Guideline patterns a request may carry.
Patterns == {ExtensionPattern("md"), ExtensionPattern("1"), DirectoryPattern("/g")}

\* Requests: a prompt, at most MaxAttachments attachments, a pattern list.
Requests ==
    {[prompt |-> <<" ", "q", "\n">>, attachments |-> atts, guideline_patterns |-> pats] :
        atts \in Texts(RawPaths, MaxAttachments), pats \in SUBSET Patterns}

ApplyCodexPrompt ==
    /\ applied = NotApplied
    /\ \E request \in Requests : Apply("CodexPrompt", request, CodexPrompt(request))

\* Override sets: resolved paths, of attachments and of other files.
OverrideSets == SUBSET {Path(CwdDir, <<"b", "txt">>), Path("/g", <<"a", "md", "1">>)}

\* The arguments of buildPromptDocument.
PromptArguments ==
    {[prompt |-> <<"q">>, attachments |-> atts, guidelinePatterns |-> pats,
      guidelineOverrides |-> overrides] :
        atts \in Texts(RawPaths, MaxAttachments), pats \in SUBSET Patterns,
        overrides \in OverrideSets}

ApplyBuildPromptDocument ==
    /\ applied = NotApplied
    /\ \E a \in PromptArguments :
          Apply("buildPromptDocument", a,
                buildPromptDocument(a.prompt, a.attachments, a.guidelinePatterns,
                                    a.guidelineOverrides))

\* Largest number of entries of a messages list.
MaxMessages == 2

\* Entries of a messages list: no object, a user message, assistant messages
\* whose content is a string, the empty string, a list of segments or absent.
MessageEntries ==
    { Null,
      Obj(<<Member("role", Str("user")), Member("content", Str("u"))>>),
      Obj(<<Member("role", Str("assistant")), Member("content", Str("a"))>>),
      Obj(<<Member("role", Str("assistant")), Member("content", Str(""))>>),
      Obj(<<Member("role", Str("assistant")),
            Member("content", Arr(<<Obj(<<Member("text", Str("p"))>>), Str("q")>>))>>),
      Obj(<<Member("role", Str("assistant"))>>) }

\* The members a document may have under key messages (<<>>: no such member).
MessagesMembers ==
    {<<>>, <<Member("messages", Str("m"))>>}
      \cup {<<Member("messages", Arr(list))>> : list \in Texts(MessageEntries, MaxMessages)}

\* The members a document may have under key response.
ResponseMembers ==
    {<<>>} \cup
    {<<Member("response", value)>> :
        value \in { Null, Str("r"), Obj(<<>>),
                    Obj(<<Member("content", Str("r"))>>),
                    Obj(<<Member("content", Str(""))>>),
                    Obj(<<Member("content", Arr(<<>>))>>),
                    Obj(<<Member("content", Obj(<<Member("text", Str("rt"))>>))>>) }}

\* The members a document may have under key output.
OutputMembers ==
    {<<>>} \cup
    {<<Member("output", value)>> :
        value \in { Null, Str("o"), Str(""),
                    Arr(<<Str(""), Obj(<<Member("text", Str("o"))>>)>>),
                    Obj(<<Member("text", Null)>>) }}

\* Parsed documents: values that are no object, and objects with any
\* combination of the three members.
ParsedDocuments ==
    {Null, Str("s"), Arr(<<>>)} \cup
    {Obj(o \o r \o m) : m \in MessagesMembers, r \in ResponseMembers, o \in OutputMembers}

ApplyExtractAssistantText ==
    /\ applied = NotApplied
    /\ \E parsed \in ParsedDocuments :
          Apply("extractAssistantText", parsed, extractAssistantText(parsed))

\* Text a backend writes before the document.
Noises == {<<"log">>, <<"log", "\n">>, <<" ", "log", ":", " ">>}

\* Texts of one valid JSON object each: flat ones, and ones with an object
\* inside (under response, in the messages list, as the output).
ObjectTexts ==
    { <<"{", "}">>,
      <<"{", "output", ":", "hi", "}">>,
      <<"{", " ", "output", ":", " ", "hi", ",", "id", ":", "null", "}", "\n">>,
      <<"{", "response", ":", "{", "content", ":", "hi", "}", "}">>,
      <<"{", "messages", ":", "[", "{", "role", ":", "assistant", ",",
        "content", ":", "hi", "}", "]", "}">>,
      <<"{", "output", ":", "{", "text", ":", "hi", "}", "}", "\n">> }

\* Standard outputs: an object text, after noise or after nothing.
NoisyOutputs ==
    {[noise |-> noise, object |-> object] :
        noise \in Noises \cup {<<>>}, object \in ObjectTexts}

ApplyParseCodexJson ==
    /\ applied = NotApplied
    /\ \E o \in NoisyOutputs :
          Apply("parseCodexJson", o, parseCodexJson(o.noise \o o.object))

\* The lists normalizeAttachments is applied to: undefined, and lists of raw
\* paths.
AttachmentLists == {NoList} \cup {SomeList(list) : list \in Texts(RawPaths, MaxAttachments)}

\* normalizeAttachments applied to a list, and then to what it returned.
ApplyNormalizeAttachments ==
    /\ applied = NotApplied
    /\ \E attachments \in AttachmentLists :
          Apply("normalizeAttachments", attachments,
                [once |-> normalizeAttachments(attachments),
                 twice |-> normalizeAttachments(normalizeAttachments(attachments))])

\* The values of an environment variable: unset, blank, set.
VariableValues(value) == {NoText, SomeText(<<" ">>), SomeText(<<" ", value, " ">>)}

\* What validateEnvironment reads: the three variables, whether access to
\* the configuration file and to the executable is rejected and with which
\* code, and what the path-search command answers.
Environments ==
    [OPENAI_API_KEY : VariableValues("k1"), CODEX_API_KEY : VariableValues("k2"),
     CODEX_CONFIG_PATH : VariableValues("cfg"),
     configAccess : {"", "ENOENT"}, executableAccess : {"", "ENOENT", "EACCES"},
     which : [rejected : BOOLEAN,
              stdout : {<<>>, <<" ", "\n">>,
                        <<"\n", " ", "/usr/bin/codex", "\n", "/opt/codex", "\n">>}]]

\* config.executable: a bare name, an absolute path, a relative path.
Executables == {<<"codex">>, <<"/", "opt", "/", "codex">>, <<"bin", "/", "codex">>}

ApplyValidateEnvironment ==
    /\ applied = NotApplied
    /\ \E e \in Environments, executable \in Executables :
          Apply("validateEnvironment", [env |-> e, executable |-> executable],
                validateEnvironment(e, executable))

\* Longest array content flattenContent is applied to.
MaxSegments == 3

\* Segments of an array content: strings, objects with and without a text
\* that is a string, and null.
Segments ==
    {Str("p"), Str(""), Null, Obj(<<>>),
     Obj(<<Member("text", Str("q"))>>), Obj(<<Member("text", Null)>>)}

\* The values flattenContent is applied to: undefined, null, strings, bare
\* objects and arrays of segments.
Contents ==
    {Undefined, Null, Str("s"), Str(""),
     Obj(<<>>), Obj(<<Member("text", Str("t"))>>), Obj(<<Member("text", Str(""))>>),
     Obj(<<Member("text", Null)>>), Obj(<<Member("type", Str("x")), Member("text", Str("t"))>>)}
      \cup {Arr(segments) : segments \in Texts(Segments, MaxSegments)}

ApplyFlattenContent ==
    /\ applied = NotApplied
    /\ \E value \in Contents : Apply("flattenContent", value, flattenContent(value))

\* mirrorAttachments applied to a list of attachments as given: paths of
\* one file and base names of several files may come more than once.
\* The sessions of a VSCodeProvider and its config.dryRun.
SessionArguments ==
    {[dryRun |-> dryRun, session |-> Session(exitCode, responseFile, error)] :
        dryRun \in BOOLEAN, exitCode \in {0, 1, -1}, responseFile \in BOOLEAN,
        error \in SessionErrors}

ApplyAfterSession ==
    /\ applied = NotApplied
    /\ \E a \in SessionArguments :
          Apply("AfterSession", a, AfterSession(a.dryRun, a.session))

ApplyMirrorAttachments ==
    /\ applied = NotApplied
    /\ \E attachments \in Texts(RawPaths, MaxAttachments),
          guidelineOriginals \in {{}, {Path("/g", <<"a", "md">>)}} :
          Apply("mirrorAttachments",
                [attachments |-> attachments, guidelineOriginals |-> guidelineOriginals],
                MirroredPaths(attachments, FilesRoot, guidelineOriginals))

FunctionNext ==
    \/ ApplyAfterSession
    \/ ApplyMirrorAttachments
    \/ ApplyFlattenContent
    \/ ApplyValidateEnvironment
    \/ ApplyNormalizeAttachments
    \/ ApplyResultCompletion
    \/ ApplyExecuteFailure
    \/ ApplyCodexPrompt
    \/ ApplyBuildPromptDocument
    \/ ApplyExtractAssistantText
    \/ ApplyParseCodexJson

FunctionSpec == FunctionInit /\ [][FunctionNext]_vars

----------------------------------------------------------------------------
(* Properties *)

CodexCalls == {c \in Calls : prov[c] = "codex"}

\* The call in slot c settles in this step.
Settles(c) == pc[c] \notin IdlePcs /\ pc'[c] = "settled"

\* C1: every call that created a workspace calls rm on it exactly once before
\* it settles, whatever the try block completed with; a call that created no
\* workspace calls rm never; and rm is given the call's own workspace.
C1_CleanupExactlyOnce ==
    /\ [](\A c \in Calls :
            /\ cleanups[c] <= 1
            /\ pc[c] \in {"mirror", "writePrompt", "running"}
                 => ws[c] # 0 /\ cleanups[c] = 0
            /\ pc[c] = "cleanup" => ws[c] # 0 /\ cleanups[c] = 1)
    /\ [][\A c \in Calls :
            Settles(c) =>
              /\ cleanups'[c] = cleanups[c]
              /\ cleanups[c] = (IF ws[c] # 0 THEN 1 ELSE 0)
              /\ ws[c] # 0 => dirs' \in {dirs, dirs \ {ws[c]}}]_vars

\* Two calls have settled after one rm call each: one timed out, the other's
\* spawn failed.
C1_Witness ==
    \E c, d \in Calls :
        /\ pc[c] = "settled" /\ outcome[c].kind = "timeout" /\ cleanups[c] = 1
        /\ pc[d] = "settled" /\ outcome[d].kind = "executableNotFound"
        /\ cleanups[d] = 1

\* C2: invoke settles with the completion of its try block, whether rm
\* resolved or was rejected; no call settles with the failure of rm.
C2_CleanupFailureSwallowed ==
    /\ [](\A c \in Calls : outcome[c].kind # "rm")
    /\ [][\A c \in Calls :
            (pc[c] = "cleanup" /\ Settles(c)) => outcome'[c] = tryOut[c]]_vars

\* Both calls have settled, one with its response and one with its exit-code
\* error, and both workspaces are still there: each rm was rejected.
C2_Witness ==
    \E c, d \in Calls :
        /\ pc[c] = "settled" /\ outcome[c].kind = "response" /\ prov[c] = "codex"
        /\ pc[d] = "settled" /\ outcome[d].kind = "exit"
        /\ cleanups[c] = 1 /\ cleanups[d] = 1
        /\ Cardinality(dirs) = 2

\* C3: a call entered with an aborted signal, on either provider, rejects in
\* the same step with the aborted error: no validation is started or stored,
\* no workspace is created, no process is spawned, no session is dispatched.
C3_AbortedAtEntry ==
    [][\A c \in Calls :
         (pc[c] \in IdlePcs /\ sig[c] # "aborted" /\ sig'[c] = "aborted") =>
            /\ pc'[c] = "settled"
            /\ outcome'[c] = Failure("aborted", "")
            /\ cleanups'[c] = 0
            /\ UNCHANGED <<providerVars, dirs, ws, run>>]_vars

\* Both providers have rejected a call at entry and nothing else has happened.
C3_Witness ==
    \E c, d \in Calls :
        /\ prov[c] = "codex" /\ pc[c] = "settled" /\ outcome[c].kind = "aborted"
        /\ prov[d] \in VSCodeProviders /\ pc[d] = "settled"
        /\ outcome[d].kind = "aborted"
        /\ environmentCheck.st = "unset" /\ validationRuns = 0 /\ dirs = {}

\* C4: validateEnvironment is started at most once, and every call that went
\* past await ensureEnvironmentReady() saw the outcome of that one run: it
\* waits while the run is pending, proceeds only if it resolved, and rejects
\* with its failure if it was rejected.
C4_ValidationOnce ==
    /\ validationRuns <= 1
    /\ \A c \in CodexCalls :
         /\ pc[c] = "awaitEnv" =>
              validationRuns = 1 /\ environmentCheck.st # "unset"
         /\ pc[c] \in {"createWorkspace", "mirror", "writePrompt", "running", "cleanup"}
              => environmentCheck.st = "resolved"
         /\ (pc[c] = "settled" /\ outcome[c].kind = "environment") =>
              /\ environmentCheck.st = "rejected"
              /\ outcome[c] = Failure("environment", environmentCheck.why)
         /\ (pc[c] = "settled" /\ outcome[c].kind \notin {"environment", "aborted"})
              => environmentCheck.st = "resolved"

\* Two first calls wait for the one validation in flight.
C4_Witness ==
    /\ \A c \in Calls : prov[c] = "codex" /\ pc[c] = "awaitEnv"
    /\ environmentCheck.st = "pending"
    /\ validating = "exec"
    /\ validationRuns = 1

\* C5: once the stored validation is rejected it stays as it is: no invoke
\* starts a validation again, whatever the environment has become, and every
\* call that awaits it rejects with the stored failure.
C5_FailureCached ==
    [][EnvironmentRejected =>
         /\ UNCHANGED providerVars
         /\ \A c \in Calls :
              (pc[c] = "awaitEnv" /\ pc'[c] # "awaitEnv") =>
                 /\ pc'[c] = "settled"
                 /\ outcome'[c] = Failure("environment", environmentCheck.why)]_vars

\* The environment is valid now, the stored failure names the configuration
\* file, one call has been rejected with it and another is about to be.
C5_Witness ==
    \E c, d \in Calls :
        /\ env = [creds |-> TRUE, config |-> TRUE, exec |-> TRUE]
        /\ environmentCheck = [st |-> "rejected", why |-> "config"]
        /\ pc[c] = "settled" /\ outcome[c] = Failure("environment", "config")
        /\ pc[d] = "awaitEnv"
        /\ validationRuns = 1

\* C6: a call that finds the validation failed rejects without a workspace,
\* without a runner and without an rm call.
C6_NoWorkAfterFailedValidation ==
    /\ [](\A c \in CodexCalls :
            (pc[c] = "settled" /\ outcome[c].kind = "environment") =>
               cleanups[c] = 0 /\ run[c] = NoRun /\ ws[c] = 0)
    /\ [][\A c \in Calls :
            (pc[c] = "awaitEnv" /\ environmentCheck.st = "rejected"
               /\ pc'[c] # "awaitEnv") =>
               /\ outcome'[c].kind = "environment"
               /\ UNCHANGED <<dirs, ws, run, cleanups>>]_vars

\* Both credential variables are missing: the first call was rejected with the
\* credential failure and no directory was ever created.
C6_Witness ==
    \E c \in Calls :
        /\ ~env.creds
        /\ pc[c] = "settled" /\ outcome[c] = Failure("environment", "credentials")
        /\ dirs = {} /\ validationRuns = 1


\* The timer of call c has expired while its child was running.
TimedOutRunning(c) == run[c].child = "running" /\ run[c].timedOut

\* C7: once the timer has expired on a running child, the run resolves and
\* invoke eventually settles.
C7_TimeoutAlwaysSettles ==
    \A c \in Calls : TimedOutRunning(c) ~> (pc[c] = "settled")

\* What the runner does ensure in the case of C7: the expiring timer sets the
\* flag and sends SIGTERM to the running child; from then on either the child
\* never closes, or invoke settles with the timeout error.
C7_TimeoutSettlesOnceClosed ==
    /\ [][\A c \in Calls :
            (run[c].child = "running" /\ run[c].timer /\ ~run'[c].timer
               /\ run'[c].child = "running") =>
               run'[c].timedOut /\ run'[c].killed]_vars
    /\ \A c \in Calls :
         [](TimedOutRunning(c) =>
              \/ [](run[c].child = "running")
              \/ <>(pc[c] = "settled" /\ outcome[c].kind = "timeout"))

\* The timer has expired, SIGTERM was sent, and the child is still running.
C7_Witness ==
    \E c \in Calls :
        /\ TimedOutRunning(c) /\ run[c].killed /\ ~run[c].timer
        /\ pc[c] = "running" /\ run[c].promise = "pending"

\* C8: the flag is set by the expiring timer and by nothing else, and only
\* before the child's close event; an abort requests termination and leaves
\* the flag alone; the result carries the flag as it is at the close event;
\* without a positive timeout there is no timer and the flag stays false.
C8_TimedOutIffTimerExpired ==
    /\ [](\A c \in Calls : timeoutMs <= 0 => ~run[c].timedOut /\ ~run[c].timer)
    /\ [][\A c \in Calls :
            /\ (~run[c].timedOut /\ run'[c].timedOut) =>
                  /\ run[c].timer /\ ~run'[c].timer
                  /\ run[c].promise = "pending" /\ run'[c].promise = "pending"
            /\ (run[c].timer /\ ~run'[c].timer /\ run'[c].promise = "pending")
                  => run'[c].timedOut
            /\ (sig[c] = "clear" /\ sig'[c] = "aborted") =>
                  /\ run'[c].timedOut = run[c].timedOut
                  /\ run[c].child = "running" => run'[c].killed
            /\ (run[c].child = "running" /\ run'[c].child = "closed") =>
                  /\ run'[c].timedOut = run[c].timedOut
                  /\ (tryOut'[c].kind = "timeout") = run[c].timedOut
            /\ (run[c].timedOut /\ run'[c].child # "none") => run'[c].timedOut]_vars

\* A timeout is configured, the abort listener has sent SIGTERM, and the child
\* closed, killed by the signal, before the timer expired: the flag is false.
C8_Witness ==
    \E c \in Calls :
        /\ timeoutMs > 0
        /\ pc[c] = "cleanup" /\ run[c].child = "closed"
        /\ run[c].listener = "fired" /\ run[c].killed /\ ~run[c].timedOut
        /\ tryOut[c] = Completion("exit", -1, <<>>)

\* C9: a call whose signal was aborted while its child was running never
\* returns a response.
C9_AbortedMidFlightFails ==
    [][\A c \in Calls :
         (pc[c] = "cleanup" /\ run[c].listener = "fired" /\ Settles(c)) =>
            outcome'[c].kind # "response"]_vars

\* C10: a resolved run whose flag is set makes invoke reject with the timeout
\* error, whatever the exit code and the output are and whether or not an
\* abort fired too; the seconds named are the least whole number of seconds
\* that is not below timeoutMs.
C10_TimeoutTakesPrecedence ==
    /\ [](\A c \in Calls :
            (pc[c] = "cleanup" /\ run[c].promise = "resolved" /\ run[c].timedOut) =>
               /\ tryOut[c].kind = "timeout"
               /\ tryOut[c].detail = <<>>
               /\ timeoutMs > 0
               /\ tryOut[c].code * 1000 >= timeoutMs
               /\ (tryOut[c].code - 1) * 1000 < timeoutMs)
    /\ [][\A c \in Calls :
            (pc[c] = "cleanup" /\ run[c].promise = "resolved" /\ run[c].timedOut
               /\ Settles(c)) => outcome'[c] = tryOut[c]]_vars

\* The timer expired and the abort listener fired on the same run; the child
\* has closed and the call holds the timeout error naming 2 seconds for a
\* timeout of 1500 ms.
C10_Witness ==
    \E c \in Calls :
        /\ timeoutMs = 1500
        /\ pc[c] = "cleanup" /\ run[c].promise = "resolved"
        /\ run[c].timedOut /\ run[c].listener = "fired"
        /\ tryOut[c] = Completion("timeout", 2, <<>>)

\* Some character of s is not white space.
NonBlank(s) == \E i \in 1..Len(s) : s[i] \notin WhiteSpace

\* d is s without the white space at its two ends.
IsTrimOf(d, s) ==
    /\ d # <<>> /\ d[1] \notin WhiteSpace /\ d[Len(d)] \notin WhiteSpace
    /\ \E a \in 1..Len(s) :
          /\ a + Len(d) - 1 <= Len(s)
          /\ SubSeq(s, a, a + Len(d) - 1) = d
          /\ \A i \in 1..Len(s) : (i < a \/ i > a + Len(d) - 1) => s[i] \in WhiteSpace

\* C11: a result that is not timed out and has a non-zero exit code makes
\* invoke throw the exit-code error, whatever the output is (no response, no
\* parse error); the error carries the exit code and, as detail, the standard
\* error trimmed if it is not blank, else the standard output trimmed if it
\* is not blank, else nothing.
C11_ExitCodeErrorDetail ==
    (applied.fn = "ResultCompletion" /\ ~applied.arg.timedOut
        /\ applied.arg.exitCode # 0) =>
       /\ applied.ret.kind = "exit"
       /\ applied.ret.code = applied.arg.exitCode
       /\ IF NonBlank(applied.arg.stderr)
          THEN IsTrimOf(applied.ret.detail, applied.arg.stderr)
          ELSE IF NonBlank(applied.arg.stdout)
          THEN IsTrimOf(applied.ret.detail, applied.arg.stdout)
          ELSE applied.ret.detail = <<>>

\* The standard error holds white space only and the standard output is a
\* JSON document with an assistant text and a trailing newline: the error of
\* exit code 1 carries the document, trimmed.
C11_Witness ==
    /\ applied.fn = "ResultCompletion"
    /\ applied.arg = RunResult(<<"{", "output", ":", "hi", "}", "\n">>, <<" ", "\n">>,
                               1, FALSE)
    /\ applied.ret = Completion("exit", 1, <<"{", "output", ":", "hi", "}">>)

\* C12: an ENOENT rejection of the runner makes executeCodex throw the error
\* that names the configured executable (and advises updating the setting or
\* PATH); any other rejection is rethrown as it is.
C12_ExecutableNotFoundRewritten ==
    applied.fn = "executeCodex" =>
       IF applied.arg.code = "ENOENT"
       THEN /\ applied.ret.kind = "executableNotFound"
            /\ applied.ret.detail = <<ConfigExecutable>>
       ELSE /\ applied.ret.kind = "runnerError"
            /\ applied.ret.detail = <<applied.arg.code, applied.arg.message>>

\* A permission error of spawn was rethrown as it was.
C12_Witness ==
    /\ applied.fn = "executeCodex"
    /\ applied.arg = ErrorOf("EACCES", "spawn")
    /\ applied.ret = Rethrown(ErrorOf("EACCES", "spawn"))

\* C13: calls in flight at the same time hold distinct workspaces; a
\* workspace is created under a name no existing directory has; the
\* directory a call mirrors into and writes its prompt into is its own and
\* exists; and a step removes no directory but the workspace of the call
\* that settles in it.  (No workspace code reads a field of the provider
\* instance, so two slots stand for calls of one instance or of two.)
C13_WorkspacesNotShared ==
    /\ [](\A c \in Calls :
            /\ ws[c] # 0 => ws[c] \in dirs
            /\ pc[c] \in {"mirror", "writePrompt", "running", "cleanup"} => ws[c] # 0
            /\ \A d \in Calls \ {c} : ws[c] # 0 => ws[d] # ws[c])
    /\ [][\A c \in Calls :
            /\ (ws[c] = 0 /\ ws'[c] # 0) => ws'[c] \notin dirs
            /\ (ws[c] # 0 /\ ~Settles(c)) => ws'[c] = ws[c] /\ ws[c] \in dirs'
            /\ \A d \in dirs \ dirs' : \E e \in Calls : Settles(e) /\ ws[e] = d]_vars

\* Two calls overlap, each with a workspace of its own: one is running its
\* child, the other is mirroring attachments.
C13_Witness ==
    \E c, d \in Calls :
        /\ pc[c] = "running" /\ pc[d] = "mirror"
        /\ ws[c] # 0 /\ ws[d] # 0 /\ ws[c] # ws[d]
        /\ {ws[c], ws[d]} \subseteq dirs

\* C14: every attachment that a pattern makes a guideline file before
\* mirroring has its mirrored path in the guideline list of the prompt
\* document, whatever the patterns are and whatever name mirroring gave it.
C14_GuidelinesSurviveMirroring ==
    applied.fn = "CodexPrompt" =>
       \A i \in 1..Len(applied.ret.attachments) :
          isGuidelineFile(applied.ret.attachments[i], applied.arg.guideline_patterns) =>
             Has(applied.ret.promptContent.guidelines, applied.ret.mirroredAttachments[i])

\* Two guideline files with one base name: the second is mirrored as
\* a.md.1, which the pattern does not match, and is listed as a guideline.
C14_Witness ==
    /\ applied.fn = "CodexPrompt"
    /\ applied.arg.attachments = <<Path("", <<"a", "md">>), Path("/g", <<"a", "md">>)>>
    /\ applied.arg.guideline_patterns = {ExtensionPattern("md")}
    /\ applied.ret.promptContent.guidelines =
          <<Path(FilesRoot, <<"a", "md">>), Path(FilesRoot, <<"a", "md", "1">>)>>
    /\ applied.ret.promptContent.attachments = <<>>

\* Position of the first attachment that resolves to file.
FirstIndex(attachments, file) ==
    CHOOSE i \in 1..Len(attachments) :
        /\ resolve(attachments[i]) = file
        /\ \A j \in 1..(i - 1) : resolve(attachments[j]) # file

\* list holds no file twice, and its files are attachments, in the order in
\* which the attachments first name them.
InInputOrder(list, attachments) ==
    /\ \A i, j \in 1..Len(list) : i # j => list[i] # list[j]
    /\ \A i \in 1..Len(list) : \E j \in 1..Len(attachments) : resolve(attachments[j]) = list[i]
    /\ \A i, j \in 1..Len(list) :
          i < j => FirstIndex(attachments, list[i]) < FirstIndex(attachments, list[j])

\* C15: in every prompt document no file is in both lists, the two lists
\* together hold exactly the resolved attachments, and each list holds its
\* files once, in input order.
C15_ListsPartitionAttachments ==
    applied.fn = "buildPromptDocument" =>
       LET doc == applied.ret
           attachments == applied.arg.attachments
       IN  /\ Range(doc.guidelines) \cap Range(doc.attachments) = {}
           /\ Range(doc.guidelines) \cup Range(doc.attachments)
                 = {resolve(attachments[i]) : i \in 1..Len(attachments)}
           /\ InInputOrder(doc.guidelines, attachments)
           /\ InInputOrder(doc.attachments, attachments)

\* Three attachments, two of them one file: the document lists the plain file
\* once and the guideline file once.
C15_Witness ==
    /\ applied.fn = "buildPromptDocument"
    /\ applied.arg.attachments =
          <<Path("", <<"b", "txt">>), Path("/g", <<"a", "md">>), Path(CwdDir, <<"b", "txt">>)>>
    /\ applied.arg.guidelinePatterns = {DirectoryPattern("/g")}
    /\ applied.arg.guidelineOverrides = {}
    /\ applied.ret.guidelines = <<Path("/g", <<"a", "md">>)>>
    /\ applied.ret.attachments = <<Path(CwdDir, <<"b", "txt">>)>>

\* The session of the batch call ended with exit code 0 and a list of
\* response files.
BatchSessionOk ==
    /\ batch.pc \in {"reading", "settled"}
    /\ Len(batch.requests) >= 1
    /\ batch.session.exitCode = 0 /\ batch.session.responseFiles.def
    /\ batch.outcome.detail \notin {"dispatch"}

\* list holds the resolved paths of files, each once.
IsNormalized(list, files) ==
    /\ list.def = (files.def /\ files.list # <<>>)
    /\ Range(list.list) = {resolve(f) : f \in Range(files.list)}
    /\ Len(list.list) = Cardinality(Range(list.list))

\* C16: with dry-run off, a session that ended with exit code 0 and as many
\* response files as requests makes invokeBatch read every file (it is
\* rejected only when a read is) and return one response per request, in
\* request order: the text is the content of the response file of the same
\* position and the metadata carries the request's own normalized files.
C16_BatchResponsesInOrder ==
    (BatchSessionOk /\ ~batch.dryRun /\ batch.pc = "settled"
        /\ Len(batch.session.responseFiles.files) = Len(batch.requests)) =>
       /\ batch.outcome.kind = "failure" => batch.outcome.detail = "readFile"
       /\ batch.outcome.kind = "returned" =>
            /\ Len(batch.outcome.value) = Len(batch.requests)
            /\ batch.reads = Len(batch.requests)
            /\ \A i \in 1..Len(batch.requests) :
                  /\ batch.outcome.value[i].text
                        = ContentOf(batch.session.responseFiles.files[i])
                  /\ IsNormalized(batch.outcome.value[i].inputFiles,
                                  batch.requests[i].inputFiles)

\* Two requests, the first without input files and the second with three
\* paths of two files: the responses carry the texts of r2 and r1, in that
\* order, and the input files of their own requests.
C16_Witness ==
    /\ batch.pc = "settled" /\ ~batch.dryRun /\ batch.outcome.kind = "returned"
    /\ Len(batch.requests) = 2
    /\ batch.session.responseFiles.files = <<"r2", "r1">>
    /\ batch.outcome.value[1].text = ContentOf("r2")
    /\ batch.outcome.value[1].inputFiles = NoList
    /\ batch.outcome.value[2].text = ContentOf("r1")
    /\ Len(batch.outcome.value[2].inputFiles.list) = 2
    /\ batch.outcome.value[2].allInputFiles = batch.outcome.value[2].inputFiles

\* The session returned a number of response files that differs from the
\* number of requests.
BatchCountMismatch ==
    BatchSessionOk /\ Len(batch.session.responseFiles.files) # Len(batch.requests)

\* C17: when the number of response files differs from the number of
\* requests, invokeBatch is rejected and returns no response, whether
\* dry-run is on or off.
C17_CountMismatchFailsBatch ==
    (BatchCountMismatch /\ batch.pc = "settled") =>
       batch.outcome.kind = "failure" /\ batch.outcome.value = <<>>

\* What invokeBatch does ensure in the case of C17: with dry-run off the
\* call is rejected with the count error before any file is read; with
\* dry-run on it returns one empty response per request.
C17_CountMismatchFailsUnlessDryRun ==
    (BatchCountMismatch /\ batch.pc = "settled") =>
       IF batch.dryRun
       THEN batch.outcome.kind = "returned"
              /\ Len(batch.outcome.value) = Len(batch.requests)
       ELSE batch.outcome = BatchOutcome("failure", "countMismatch", <<>>)
              /\ batch.reads = 0

\* Dry-run is on, two requests were given and the session returned three
\* response files: invokeBatch returned two responses.
C17_Witness ==
    /\ batch.pc = "settled" /\ batch.dryRun
    /\ Len(batch.requests) = 2 /\ Len(batch.session.responseFiles.files) = 3
    /\ batch.session.exitCode = 0
    /\ batch.outcome.kind = "returned" /\ Len(batch.outcome.value) = 2

\* C18: in dry-run mode no response file is read: an invoke call never
\* waits for readFile and returns nothing but the empty text, and an
\* invokeBatch call whose session ended with exit code 0 and a list of
\* response files returns one response of empty text per request without a
\* single readFile call.
C18_DryRunReadsNothing ==
    /\ \A c \in Calls :
          prov[c] = "vscodeDryRun" =>
             /\ pc[c] # "readResponse"
             /\ outcome[c].kind # "readFile"
             /\ outcome[c].kind = "response" => outcome[c].detail = <<>>
    /\ batch.dryRun =>
          /\ batch.reads = 0 /\ batch.pc # "reading"
          /\ (BatchSessionOk /\ batch.pc = "settled") =>
                /\ batch.outcome.kind = "returned"
                /\ Len(batch.outcome.value) = Len(batch.requests)
                /\ \A i \in 1..Len(batch.requests) :
                      /\ batch.outcome.value[i].text = <<>>
                      /\ batch.outcome.value[i].responseFile = ""

\* A dry-run batch of two requests has returned two responses after a
\* session with two response files.
C18_Witness ==
    /\ batch.pc = "settled" /\ batch.dryRun /\ batch.reads = 0
    /\ Len(batch.requests) = 2
    /\ batch.session.responseFiles = ResponseFiles(<<"r1", "r2">>)
    /\ batch.outcome.kind = "returned"
    /\ \A i \in 1..2 : batch.outcome.value[i].text = <<>>

\* The positions of the entries of the messages list of a document that are
\* assistant messages whose content flattens to a non-empty text.
AssistantTexts(parsed) ==
    LET messages == Get(parsed, "messages")
    IN  IF messages.t # "arr" THEN {}
        ELSE {i \in 1..Len(messages.m) :
                /\ messages.m[i].t = "obj"
                /\ Get(messages.m[i], "role") = Str("assistant")
                /\ Truthy(flattenContent(Get(messages.m[i], "content")))}

\* The three candidates of a document, in the order of the claim: the last
\* assistant message with text, response.content, and the top-level output.
Candidates(parsed) ==
    LET at == AssistantTexts(parsed)
        last == CHOOSE i \in at : \A j \in at : j <= i
        response == Get(parsed, "response")
    IN  << IF at = {} THEN NoText
           ELSE flattenContent(Get(Get(parsed, "messages").m[last], "content")),
           IF response.t \in {"obj", "arr"}
           THEN flattenContent(Get(response, "content")) ELSE NoText,
           flattenContent(Get(parsed, "output")) >>

\* C19: extractAssistantText returns the text of the first of the candidates
\* messages, response.content, output that flattens to a non-empty text (a
\* later candidate only when every earlier one yields none), and fails with
\* the missing-assistant-message error when none does.
C19_FirstCandidateWithText ==
    applied.fn = "extractAssistantText" =>
       LET candidates == Candidates(applied.arg)
           withText == {k \in 1..3 : Truthy(candidates[k])}
       IN  IF withText = {} THEN applied.ret = NoText
           ELSE applied.ret = candidates[CHOOSE k \in withText : \A l \in withText : k <= l]

\* A document whose only assistant message has empty content, whose
\* response.content is empty and whose output holds text: the text returned
\* is the output's.
C19_Witness ==
    /\ applied.fn = "extractAssistantText"
    /\ Get(applied.arg, "messages").t = "arr"
    /\ \E i \in 1..Len(Get(applied.arg, "messages").m) :
          Get(Get(applied.arg, "messages").m[i], "role") = Str("assistant")
    /\ Get(Get(applied.arg, "response"), "content") = Str("")
    /\ ~Truthy(Candidates(applied.arg)[1]) /\ ~Truthy(Candidates(applied.arg)[2])
    /\ applied.ret = SomeText(<<"o">>)

\* The object text holds an object inside the object.
HasNestedObject(object) == \E i \in 2..Len(object) : object[i] = "{"

\* C20: standard output that is noise followed by one valid JSON object, of
\* any shape, is parsed to that object.
C20_NoiseThenObjectRecovered ==
    (applied.fn = "parseCodexJson" /\ applied.arg.noise # <<>>) =>
       /\ applied.ret.ok
       /\ applied.ret.value = JSONparse(applied.arg.object).value

\* What parseCodexJson does ensure in the case of C20: an object without an
\* object inside it is recovered from behind the noise, and one with an
\* object inside it is rejected as invalid JSON; without noise every object
\* is parsed.
C20_OnlyFlatObjectsRecovered ==
    applied.fn = "parseCodexJson" =>
       IF applied.arg.noise = <<>> \/ ~HasNestedObject(applied.arg.object)
       THEN applied.ret.ok /\ applied.ret.value = JSONparse(applied.arg.object).value
       ELSE ~applied.ret.ok /\ applied.ret.error = "invalidJson"

\* Noise followed by an object with response.content inside was rejected as
\* invalid JSON, though the object alone parses.
C20_Witness ==
    /\ applied.fn = "parseCodexJson"
    /\ applied.arg.noise = <<"log", "\n">>
    /\ applied.arg.object = <<"{", "response", ":", "{", "content", ":", "hi", "}", "}">>
    /\ JSONparse(applied.arg.object).ok
    /\ applied.ret.error = "invalidJson"

\* Neither JSON.parse of the trimmed output nor JSON.parse of its part from
\* the last opening brace succeeds.
NeitherParseSucceeds(trimmed) ==
    /\ trimmed # <<>>
    /\ ~JSONparse(trimmed).ok
    /\ \A i \in 1..Len(trimmed) :
          (trimmed[i] = "{" /\ \A j \in (i + 1)..Len(trimmed) : trimmed[j] # "{")
             => ~JSONparse(SubSeq(trimmed, i, Len(trimmed))).ok

\* C21: when the child has closed with exit code 0 and without a timeout,
\* and neither the direct parse nor the retry from the last brace of the
\* trimmed standard output succeeds, invoke is rejected with the
\* invalid-JSON error, never a response; the error quotes the trimmed output
\* from its start, at most its first 200 characters, followed by nothing
\* but an ellipsis when the output is longer.
C21_InvalidJsonPreview ==
    (/\ applied.fn = "ResultCompletion"
     /\ ~applied.arg.timedOut /\ applied.arg.exitCode = 0
     /\ NeitherParseSucceeds(trim(applied.arg.stdout))) =>
       LET trimmed == trim(applied.arg.stdout)
           detail == applied.ret.detail
           quoted == IF Len(trimmed) < PreviewLength THEN Len(trimmed) ELSE PreviewLength
       IN  /\ applied.ret.kind = "invalidJson"
           /\ SubSeq(detail, 1, quoted) = SubSeq(trimmed, 1, quoted)
           /\ IF Len(trimmed) > PreviewLength
              THEN detail = SubSeq(trimmed, 1, PreviewLength) \o <<"...">>
              ELSE detail = trimmed

\* An output of more than 200 characters that is not JSON was rejected with
\* a preview of its first 200 characters and an ellipsis.
C21_Witness ==
    /\ applied.fn = "ResultCompletion"
    /\ ~applied.arg.timedOut /\ applied.arg.exitCode = 0
    /\ Len(trim(applied.arg.stdout)) = PreviewLength + 2
    /\ applied.arg.stdout[2] = "{"
    /\ applied.ret.kind = "invalidJson"
    /\ Len(applied.ret.detail) = PreviewLength + 1

\* C22: normalizeAttachments returns undefined for an absent or empty list
\* and otherwise the resolved, absolute paths of the list, one entry for
\* each distinct resolved path, in the order in which the list first names
\* them; applied to what it returned it returns the same.
C22_NormalizeAttachments ==
    applied.fn = "normalizeAttachments" =>
       LET attachments == applied.arg
           once == applied.ret.once
       IN  /\ IF ~attachments.def \/ attachments.list = <<>>
              THEN once = NoList
              ELSE /\ once.def
                   /\ \A i \in 1..Len(once.list) : once.list[i].dir # ""
                   /\ Range(once.list) = {resolve(f) : f \in Range(attachments.list)}
                   /\ Len(once.list) = Cardinality(Range(once.list))
                   /\ InInputOrder(once.list, attachments.list)
           /\ applied.ret.twice = once

\* A list that names one file in relative and in absolute form around a
\* second file was normalized to the two files, in that order.
C22_Witness ==
    /\ applied.fn = "normalizeAttachments"
    /\ applied.arg = SomeList(<<Path("", <<"a", "md">>), Path("", <<"b", "txt">>),
                                Path(CwdDir, <<"a", "md">>)>>)
    /\ applied.ret.once = SomeList(<<Path(CwdDir, <<"a", "md">>),
                                     Path(CwdDir, <<"b", "txt">>)>>)
    /\ applied.ret.twice = applied.ret.once

\* The completions of invoke that follow a call of the runner.
RunnerCompletions ==
    {"response", "timeout", "exit", "noOutput", "invalidJson", "noAssistantMessage",
     "runnerError", "executableNotFound"}

\* C23: nothing is retried.  An invoke call calls the runner at most once,
\* and exactly once when it settles with what follows a runner call, failure
\* or not; an invokeBatch call dispatches no session for an empty batch and
\* otherwise one session, whose prompt documents are those of the requests,
\* in request order, whatever the call ends with.
C23_NothingRetried ==
    /\ \A c \in Calls :
          /\ runnerCalls[c] <= 1
          /\ (prov[c] = "codex" /\ pc[c] = "settled"
                  /\ outcome[c].kind \in RunnerCompletions) => runnerCalls[c] = 1
    /\ Len(batch.dispatched) <= 1
    /\ batch.pc # "idle" =>
          IF Len(batch.requests) = 0
          THEN batch.dispatched = <<>>
          ELSE /\ Len(batch.dispatched) = 1
               /\ Len(batch.dispatched[1].userQueries) = Len(batch.requests)
               /\ \A i \in 1..Len(batch.requests) :
                     batch.dispatched[1].userQueries[i]
                        = buildPromptDocument(
                              batch.requests[i].prompt,
                              normalizeAttachments(batch.requests[i].inputFiles).list,
                              batch.requests[i].guideline_patterns, {})

\* A batch of two requests with different input files was rejected after a
\* session that failed: one session was dispatched, with two documents.
C23_Witness ==
    /\ batch.pc = "settled" /\ batch.outcome.kind = "failure"
    /\ batch.session.exitCode = 1
    /\ Len(batch.requests) = 2
    /\ batch.requests[1].inputFiles # batch.requests[2].inputFiles
    /\ Len(batch.dispatched) = 1
    /\ Len(batch.dispatched[1].userQueries) = 2
    /\ batch.dispatched[1].userQueries[1] # batch.dispatched[1].userQueries[2]

\* The text has the words as consecutive tokens.
Mentions(text, words) ==
    \E i \in 1..(Len(text) - Len(words) + 1) :
        SubSeq(text, i, i + Len(words) - 1) = words

\* The precondition that validateEnvironment finds unmet first.
UnmetPrecondition(e, executable, ret) ==
    IF ~NonBlankVariable(e.OPENAI_API_KEY) /\ ~NonBlankVariable(e.CODEX_API_KEY)
    THEN "credentials"
    ELSE IF e.configAccess # "" THEN "configuration"
    ELSE IF ~ret.ok THEN "executable"
    ELSE "none"

C24_PathExecutableFailsWithAccessError ==
    (applied.fn = "validateEnvironment" /\ ~applied.ret.ok) =>
       LET e == applied.arg.env
           executable == applied.arg.executable
           message == applied.ret.message
           unmet == UnmetPrecondition(e, executable, applied.ret)
       IN  /\ unmet = "credentials" =>
                /\ Head(message) = "Codex provider requires"
                /\ Mentions(message, <<"OPENAI_API_KEY">>)
                /\ Mentions(message, <<"CODEX_API_KEY">>)
           /\ unmet = "configuration" =>
                /\ Head(message) = "Codex configuration (~/.codex/config) was not found"
                /\ Mentions(message, resolveCodexConfigPath(e.CODEX_CONFIG_PATH))
           /\ unmet = "executable" =>
                IF Mentions(executable, <<"/">>)
                THEN message = <<e.executableAccess, "access">> \o ResolvePath(executable)
                ELSE /\ Head(message) = "Codex executable"
                     /\ Mentions(message, executable)

FirstUnmet(e) ==
    IF ~e.creds THEN "credentials"
    ELSE IF ~e.config THEN "config"
    ELSE IF ~e.exec THEN "executable"
    ELSE ""

\* C25: validateEnvironment checks the credentials, then the configuration
\* file, then the executable: it moves from one check to the next only, it
\* is rejected with the failure of the earliest unmet precondition, at that
\* check and without going on to a later one, and it resolves only when all
\* three are met.
C25_ChecksInOrder ==
    [][/\ validating' # validating =>
             <<validating, validating'>> \in
                 {<<"none", "config">>, <<"config", "exec">>,
                  <<"config", "none">>, <<"exec", "none">>}
       /\ (environmentCheck.st # "rejected" /\ environmentCheck'.st = "rejected") =>
             /\ environmentCheck'.why = FirstUnmet(env)
             /\ validating' = "none"
             /\ environmentCheck'.why = "credentials" => validating = "none"
             /\ environmentCheck'.why = "config" => validating = "config"
             /\ environmentCheck'.why = "executable" => validating = "exec"
       /\ (environmentCheck.st # "resolved" /\ environmentCheck'.st = "resolved") =>
             FirstUnmet(env) = "" /\ validating = "exec"]_vars

\* None of the three preconditions is met and the validation has been
\* rejected for the credentials, with no later check under way.
C25_Witness ==
    /\ environmentCheck = [st |-> "rejected", why |-> "credentials"]
    /\ env = [creds |-> FALSE, config |-> FALSE, exec |-> FALSE]
    /\ validating = "none" /\ validationRuns = 1
    /\ \E c \in Calls : pc[c] = "settled" /\ outcome[c] = Failure("environment", "credentials")

\* The positions of the entries of the messages list of a document whose
\* role is assistant.
AssistantEntries(parsed) ==
    LET messages == Get(parsed, "messages")
    IN  IF messages.t # "arr" THEN {}
        ELSE {i \in 1..Len(messages.m) :
                messages.m[i].t = "obj" /\ Get(messages.m[i], "role") = Str("assistant")}

\* The flattened content of entry i of the messages list.
EntryText(parsed, i) == flattenContent(Get(Get(parsed, "messages").m[i], "content"))

\* C26: of a messages list with assistant entries, only the content of the
\* last assistant entry is returned: when it flattens to a non-empty text
\* that text is the result, and when it does not the result is that of
\* response.content and output, never the content of an earlier assistant
\* entry.
C26_OnlyLastAssistantEntry ==
    (applied.fn = "extractAssistantText" /\ AssistantEntries(applied.arg) # {}) =>
       LET at == AssistantEntries(applied.arg)
           last == CHOOSE i \in at : \A j \in at : j <= i
           candidates == Candidates(applied.arg)
       IN  IF Truthy(EntryText(applied.arg, last))
           THEN applied.ret = EntryText(applied.arg, last)
           ELSE IF Truthy(candidates[2]) THEN applied.ret = candidates[2]
           ELSE IF Truthy(candidates[3]) THEN applied.ret = candidates[3]
           ELSE applied.ret = NoText

\* What extractAssistantText does ensure in the case of C26: the text taken
\* from the messages list is the content of the last assistant entry among
\* those whose content flattens to a non-empty text.
C26_LastAssistantEntryWithText ==
    (applied.fn = "extractAssistantText" /\ AssistantTexts(applied.arg) # {}) =>
       LET at == AssistantTexts(applied.arg)
       IN  applied.ret = EntryText(applied.arg, CHOOSE i \in at : \A j \in at : j <= i)

\* The last assistant entry of the messages list has empty content and the
\* one before it has text, which was returned.
C26_Witness ==
    /\ applied.fn = "extractAssistantText"
    /\ Get(applied.arg, "messages")
          = Arr(<<Obj(<<Member("role", Str("assistant")), Member("content", Str("a"))>>),
                  Obj(<<Member("role", Str("assistant")), Member("content", Str(""))>>)>>)
    /\ Get(applied.arg, "response") = Undefined
    /\ Get(applied.arg, "output") = Str("o")
    /\ applied.ret = SomeText(<<"a">>)

RECURSIVE JoinedBy(_, _)
\* The pieces in order, with the separator between consecutive pieces.
JoinedBy(pieces, separator) ==
    IF pieces = <<>> THEN <<>>
    ELSE IF Len(pieces) = 1 THEN pieces[1]
    ELSE pieces[1] \o separator \o JoinedBy(Tail(pieces), separator)

\* The piece a segment of an array content gives: the segment when it is a
\* string, the text field of an object when that is a string, else nothing.
Piece(segment) ==
    IF segment.t = "str" THEN <<TextOf(segment.s)>>
    ELSE IF segment.t = "obj" /\ Get(segment, "text").t = "str"
    THEN <<TextOf(Get(segment, "text").s)>>
    ELSE <<>>

RECURSIVE Pieces(_)
\* The pieces of the segments that are not empty, in order.
Pieces(segments) ==
    IF segments = <<>> THEN <<>>
    ELSE SelectSeq(Piece(Head(segments)), LAMBDA piece : piece # <<>>)
            \o Pieces(Tail(segments))

\* flattenContent gives a string as it is, of a bare object the text field
\* that is a string, and of an array the pieces joined by the separator
\* (nothing when no piece is left).
FlattensWith(value, ret, separator) ==
    IF value.t = "str" THEN ret = SomeText(TextOf(value.s))
    ELSE IF value.t = "arr"
    THEN (IF Pieces(value.m) = <<>> THEN ret = NoText
          ELSE ret = SomeText(JoinedBy(Pieces(value.m), separator)))
    ELSE IF value.t = "obj" /\ Get(value, "text").t = "str"
    THEN ret = SomeText(TextOf(Get(value, "text").s))
    ELSE ret = NoText

\* C27: flattenContent returns a string unchanged, of a bare object its
\* text field, and of an array its string elements and the text fields of
\* its object elements, without the empty and the missing ones, joined with
\* one newline character, and nothing else, between consecutive pieces.
C27_FlattenJoinsWithNewline ==
    applied.fn = "flattenContent" => FlattensWith(applied.arg, applied.ret, <<"\n">>)

\* What flattenContent does ensure in the case of C27: the same, with a
\* space and a newline character between consecutive pieces.
C27_FlattenJoinsWithSpaceNewline ==
    applied.fn = "flattenContent" => FlattensWith(applied.arg, applied.ret, <<" ", "\n">>)

\* An array of a string, an empty string and an object with text was
\* flattened to the two pieces with a space and a newline between them.
C27_Witness ==
    /\ applied.fn = "flattenContent"
    /\ applied.arg = Arr(<<Str("p"), Str(""), Obj(<<Member("text", Str("q"))>>)>>)
    /\ applied.ret = SomeText(<<"p", " ", "\n", "q">>)

\* The positions before i of the attachments that have the base name of
\* attachment i.
EarlierOfName(attachments, i) ==
    {j \in 1..(i - 1) : resolve(attachments[j]).base = resolve(attachments[i]).base}

\* C28: mirrorAttachments returns one path for each attachment, in input
\* order, each in the files directory of the workspace; the first attachment
\* of a base name keeps the name, and the k-th later one of that base name
\* gets the name followed by .k.
C28_MirrorNamesInOrder ==
    applied.fn = "mirrorAttachments" =>
       LET attachments == applied.arg.attachments
           mirrored == applied.ret.mirroredAttachments
       IN  /\ Len(mirrored) = Len(attachments)
           /\ \A i \in 1..Len(attachments) :
                 LET baseName == resolve(attachments[i]).base
                     k == Cardinality(EarlierOfName(attachments, i))
                 IN  /\ mirrored[i].dir = FilesRoot
                     /\ k = 0 => mirrored[i].base = baseName
                     /\ k >= 1 => mirrored[i].base = baseName \o <<Decimal(k)>>

\* Three attachments of one base name in three directories, after an
\* attachment of another name: the copies keep the input order and are named
\* a.md, a.md.1 and a.md.2.
C28_Witness ==
    /\ applied.fn = "mirrorAttachments"
    /\ applied.arg.attachments
          = <<Path("", <<"a", "md">>), Path("/g", <<"a", "md">>), Path(CwdDir, <<"a", "md">>)>>
    /\ applied.ret.mirroredAttachments
          = <<Path(FilesRoot, <<"a", "md">>), Path(FilesRoot, <<"a", "md", "1">>),
              Path(FilesRoot, <<"a", "md", "2">>)>>

RECURSIVE FilesOfRequests(_)
\* The input files of the requests as given, in request order.
FilesOfRequests(requests) ==
    IF requests = <<>> THEN <<>>
    ELSE Head(requests).inputFiles.list \o FilesOfRequests(Tail(requests))

\* C29: the input files submitted with the batch session are the resolved
\* input files of all requests, each once, in the order in which the
\* requests first name them, and are absent when no request names a file;
\* the prompt document of a request lists the files of that request and no
\* others.
C29_CombinedInputFiles ==
    batch.dispatched # <<>> =>
       LET session == batch.dispatched[1]
           files == FilesOfRequests(batch.requests)
       IN  /\ IF files = <<>>
              THEN session.extraAttachments = NoList
              ELSE /\ session.extraAttachments.def
                   /\ Range(session.extraAttachments.list) = {resolve(f) : f \in Range(files)}
                   /\ InInputOrder(session.extraAttachments.list, files)
           /\ Len(session.userQueries) = Len(batch.requests)
           /\ \A i \in 1..Len(batch.requests) :
                 Range(session.userQueries[i].guidelines)
                       \cup Range(session.userQueries[i].attachments)
                    = {resolve(f) : f \in Range(batch.requests[i].inputFiles.list)}

\* Two requests, the first with one file and the second with a second file
\* before that file in two forms: the session was given the two files once
\* each, the first request's first, and the first document lists the first
\* request's file only.
C29_Witness ==
    /\ Len(batch.requests) = 2 /\ batch.dispatched # <<>>
    /\ batch.requests[1].inputFiles = SomeList(<<Path("", <<"a", "md">>)>>)
    /\ Len(batch.requests[2].inputFiles.list) = 3
    /\ batch.dispatched[1].extraAttachments
          = SomeList(<<Path(CwdDir, <<"a", "md">>), Path(CwdDir, <<"b", "txt">>)>>)
    /\ batch.dispatched[1].userQueries[1].guidelines = <<Path(CwdDir, <<"a", "md">>)>>
    /\ batch.dispatched[1].userQueries[1].attachments = <<>>
    /\ batch.dispatched[1].userQueries[2].attachments = <<Path(CwdDir, <<"b", "txt">>)>>
    /\ batch.dispatched[1].userQueries[2].guidelines = <<Path(CwdDir, <<"a", "md">>)>>

\* C30: when the signal of a request of the batch is aborted as invokeBatch
\* is entered, no batch session is dispatched.
C30_AbortedBatchNotDispatched ==
    (batch.pc # "idle"
        /\ \E i \in 1..Len(batch.requests) : batch.requests[i].signal = "aborted") =>
       batch.dispatched = <<>>

\* What invokeBatch does ensure in the case of C30: the signals of the
\* requests play no part, every batch that is not empty is dispatched.
C30_BatchDispatchedWhateverTheSignals ==
    (batch.pc # "idle" /\ Len(batch.requests) > 0) => Len(batch.dispatched) = 1

\* Both requests of a batch had their signals aborted at entry, the session
\* was dispatched and invokeBatch returned two responses.
C30_Witness ==
    /\ batch.pc = "settled" /\ batch.outcome.kind = "returned"
    /\ Len(batch.requests) = 2 /\ Len(batch.outcome.value) = 2
    /\ \A i \in 1..2 : batch.requests[i].signal = "aborted"
    /\ Len(batch.dispatched) = 1 /\ batch.reads = 2

\* C31: a single session-based invoke whose session has a non-zero exit code
\* or no response file settles, before any file is read, with a failure, in
\* dry-run mode as well; the error is the session's own error text when it
\* is defined and the default message otherwise.
C31_SessionFailureBeforeAnyRead ==
    (/\ applied.fn = "AfterSession"
     /\ applied.arg.session.exitCode # 0 \/ ~applied.arg.session.responseFile)
    => /\ applied.ret.kind = "session"
       /\ applied.ret.detail
            = IF applied.arg.session.error.def
              THEN applied.arg.session.error.text
              ELSE NoResponseMessage

\* A dry-run provider's session came back with exit code 0, no response file
\* and no error text: the call failed with the default message.
C31_Witness ==
    /\ applied.fn = "AfterSession"
    /\ applied.arg.dryRun
    /\ applied.arg.session = Session(0, FALSE, NoText)
    /\ applied.ret = Completion("session", 0, NoResponseMessage)

\* The detail quotes the trimmed output from its start: all of it, or its
\* first PreviewLength characters and nothing but an ellipsis after them.
QuotesOutput(detail, stdout) ==
    LET trimmed == trim(stdout)
    IN  /\ detail # <<>>
        /\ IF Len(trimmed) > PreviewLength
           THEN detail = SubSeq(trimmed, 1, PreviewLength) \o <<"...">>
           ELSE detail = trimmed

\* C32: the invalid-response-format error and the missing-assistant-message
\* error each quote the output of the process from its start, at most its
\* first 200 characters.
C32_BothFailuresQuoteOutput ==
    (/\ applied.fn = "ResultCompletion"
     /\ applied.ret.kind \in {"invalidJson", "noAssistantMessage"})
    => QuotesOutput(applied.ret.detail, applied.arg.stdout)

\* C32, as the code has it: the invalid-JSON error quotes the output, the
\* missing-assistant-message error is a fixed message that quotes nothing.
C32_OnlyInvalidJsonQuotesOutput ==
    applied.fn = "ResultCompletion" =>
       /\ applied.ret.kind = "invalidJson"
             => QuotesOutput(applied.ret.detail, applied.arg.stdout)
       /\ applied.ret.kind = "noAssistantMessage" => applied.ret.detail = <<>>

\* An output that is a JSON object without an assistant message was rejected
\* with the missing-assistant-message error.
C32_Witness ==
    /\ applied.fn = "ResultCompletion"
    /\ applied.arg.stdout = <<"{", "}">>
    /\ applied.ret.kind = "noAssistantMessage"

\* The base name ends with a decimal count, as a collision suffix does.
HasSuffixForm(base) == Len(base) >= 2 /\ base[Len(base)] \in {Decimal(k) : k \in 1..9}

\* C33: within one mirror operation, attachments with distinct resolved
\* paths are copied to pairwise distinct destinations, also when a base name
\* has the form name.k of a collision suffix.
C33_DistinctDestinations ==
    applied.fn = "mirrorAttachments" =>
       LET attachments == applied.arg.attachments
           mirrored == applied.ret.mirroredAttachments
       IN  \A i, j \in 1..Len(attachments) :
              resolve(attachments[i]) # resolve(attachments[j])
                 => mirrored[i] # mirrored[j]

\* C33, as the code has it: the destinations of distinct attachments are
\* pairwise distinct when no attachment's base name has the form name.k.
C33_DistinctUnlessSuffixForm ==
    applied.fn = "mirrorAttachments" =>
       LET attachments == applied.arg.attachments
           mirrored == applied.ret.mirroredAttachments
       IN  (\A i \in 1..Len(attachments) : ~HasSuffixForm(resolve(attachments[i]).base))
              => \A i, j \in 1..Len(attachments) :
                    resolve(attachments[i]) # resolve(attachments[j])
                       => mirrored[i] # mirrored[j]

\* a.md of two directories and then a.md.1: the second a.md and a.md.1 were
\* both copied to a.md.1 of the files directory.
C33_Witness ==
    /\ applied.fn = "mirrorAttachments"
    /\ applied.arg.attachments
          = <<Path("", <<"a", "md">>), Path("/g", <<"a", "md">>),
              Path("", <<"a", "md", "1">>)>>
    /\ applied.ret.mirroredAttachments[2] = Path(FilesRoot, <<"a", "md", "1">>)
    /\ applied.ret.mirroredAttachments[3] = Path(FilesRoot, <<"a", "md", "1">>)

\* C34: mirroring adds no guideline file.  An attachment that no pattern
\* classified as a guideline before mirroring is listed, by its mirrored
\* path, under the attachment files of the prompt document and not under its
\* guideline files, for every pattern list.
C34_MirroringAddsNoGuideline ==
    applied.fn = "CodexPrompt" =>
       \A i \in 1..Len(applied.ret.attachments) :
          ~isGuidelineFile(applied.ret.attachments[i], applied.arg.guideline_patterns) =>
             /\ ~Has(applied.ret.promptContent.guidelines, applied.ret.mirroredAttachments[i])
             /\ Has(applied.ret.promptContent.attachments, applied.ret.mirroredAttachments[i])

\* C34, as the code has it: a plain attachment stays plain when no pattern
\* matches its mirrored path and that path is not the mirror of a guideline
\* file too.
C34_PlainUnlessMirrorMatches ==
    applied.fn = "CodexPrompt" =>
       \A i \in 1..Len(applied.ret.attachments) :
          (/\ ~isGuidelineFile(applied.ret.attachments[i], applied.arg.guideline_patterns)
           /\ ~isGuidelineFile(applied.ret.mirroredAttachments[i],
                               applied.arg.guideline_patterns)
           /\ applied.ret.mirroredAttachments[i] \notin applied.ret.guidelineMirrors) =>
             /\ ~Has(applied.ret.promptContent.guidelines, applied.ret.mirroredAttachments[i])
             /\ Has(applied.ret.promptContent.attachments, applied.ret.mirroredAttachments[i])

\* Two plain files named b.txt and a pattern for the extension 1: the second
\* is mirrored as b.txt.1 and listed as a guideline file.
C34_Witness ==
    /\ applied.fn = "CodexPrompt"
    /\ applied.arg.attachments = <<Path("", <<"b", "txt">>), Path("/g", <<"b", "txt">>)>>
    /\ applied.arg.guideline_patterns = {ExtensionPattern("1")}
    /\ applied.ret.guidelineMirrors = {}
    /\ applied.ret.promptContent.guidelines = <<Path(FilesRoot, <<"b", "txt", "1">>)>>
    /\ applied.ret.promptContent.attachments = <<Path(FilesRoot, <<"b", "txt">>)>>

\* The promise of the runner has been resolved or rejected.
RunnerSettled(r) == r.promise \in {"resolved", "rejected"}

\* C35: the promise of the runner is settled once, rejected by the error
\* event or resolved by the close event, whichever is handled first, and a
\* later close event leaves it as it is; once it is settled the timer is
\* cancelled and the abort listener removed, and nothing requests
\* termination or changes the timed-out flag any more.
C35_RunnerSettlesOnce ==
    /\ [](\A c \in Calls :
            RunnerSettled(run[c]) => ~run[c].timer /\ run[c].listener # "installed")
    /\ [][\A c \in Calls :
            /\ (run[c].promise = "pending" /\ run'[c].promise = "rejected")
                  => run[c].child = "failed" /\ run'[c].child = "errored"
            /\ (run[c].promise = "pending" /\ run'[c].promise = "resolved")
                  => run[c].child = "running" /\ run'[c].child = "closed"
            /\ RunnerSettled(run[c]) =>
                  \/ run'[c] = NoRun
                  \/ /\ run'[c].promise = run[c].promise
                     /\ run'[c].timedOut = run[c].timedOut
                     /\ run'[c].killed = run[c].killed]_vars

\* A run with a timer and an abort listener was rejected by the error event
\* and its close event was handled after that: the promise is still
\* rejected, the timer is cancelled and the listener removed.
C35_Witness ==
    \E c \in Calls :
        /\ timeoutMs > 0
        /\ pc[c] = "cleanup"
        /\ run[c].promise = "rejected" /\ run[c].child = "closed"
        /\ ~run[c].timer /\ run[c].listener = "none"

\* C36: no abort is lost.  When the signal of a call has aborted after the
\* entry check, during validation, workspace creation or mirroring included,
\* the child is sent the termination request as soon as it is spawned; when
\* the signal aborts while the child is running, the listener sends it then;
\* so a running child whose call's signal is aborted has been sent SIGTERM.
C36_NoAbortLost ==
    /\ [](\A c \in Calls :
            (run[c].child = "running" /\ sig[c] = "aborted") =>
               run[c].killed /\ run[c].listener \in {"none", "fired"})
    /\ [][\A c \in Calls :
            /\ (run[c].child = "none" /\ run'[c].child = "running" /\ sig[c] = "aborted")
                  => run'[c].killed /\ run'[c].listener = "none"
            /\ (run[c].child = "running" /\ sig[c] = "clear" /\ sig'[c] = "aborted")
                  => run'[c].killed /\ run'[c].listener = "fired"]_vars

\* The signal aborted before the child was spawned and no timeout is
\* configured: the running child was sent SIGTERM by the runner's check of
\* the signal, and no listener is installed.
C36_Witness ==
    \E c \in Calls :
        /\ timeoutMs = 0
        /\ pc[c] = "running" /\ run[c].child = "running"
        /\ sig[c] = "aborted" /\ run[c].listener = "none"
        /\ run[c].killed /\ ~run[c].timedOut

\* The child of the run is a process that has not closed.
ChildRunning(r) == r.child = "running"

C38_ResponseOnlyWithText ==
    applied.fn = "ResultCompletion" =>
       IF applied.ret.kind = "response"
       THEN /\ ~applied.arg.timedOut
            /\ applied.arg.exitCode = 0
            /\ trim(applied.arg.stdout) # <<>>
            /\ ~NeitherParseSucceeds(trim(applied.arg.stdout))
            /\ applied.ret.detail # <<>>
       ELSE applied.ret.kind
               \in {"timeout", "exit", "noOutput", "invalidJson", "noAssistantMessage"}

\* A run that ended with exit code 0, text on its standard error and a
\* document whose output is hi was answered with hi.
C38_Witness ==
    /\ applied.fn = "ResultCompletion"
    /\ ~applied.arg.timedOut /\ applied.arg.exitCode = 0
    /\ applied.arg.stderr # <<>>
    /\ applied.arg.stdout = <<"{", "output", ":", "hi", "}", "\n">>
    /\ applied.ret = Completion("response", 0, <<"hi">>)

====
